---- MODULE Spec2Model ----
(***************************************************************************)
(* Model of the broadcast queue engine of Diamante-Testnet                 *)
(* (src/services/broadcastQueueManager.js, class BroadcastQueueManager),   *)
(* of BroadcastHandler, its caller in the same file, of the batch transfer  *)
(* and the single transfer of src/index.js (transferWithRetry), and of the *)
(* RateLimiter of src/middleware/rateLimiting.js.                          *)
(*                                                                         *)
(* JavaScript runs one macrotask (timer callback, I/O completion, external *)
(* call) at a time and drains the FIFO microtask queue after it.  The      *)
(* model keeps every pending timer with its remaining milliseconds and the *)
(* microtask queue as a sequence; a timer fires only when the microtask    *)
(* queue is empty and no other timer is due earlier.                       *)
(***************************************************************************)
EXTENDS Integers, Sequences, FiniteSets, TLC

VARIABLES
    queue,                  \* this.queue: pending work items, head is dispatched next
    processing,             \* this.processing
    currentConcurrent,      \* this.currentConcurrent
    consecutiveFailures,    \* this.consecutiveFailures
    circuitBreakerOpen,     \* this.circuitBreakerOpen
    circuitBreakerTimeout,  \* this.circuitBreakerTimeout: remaining ms, or NoTimer
    stats,                  \* this.stats
    onComplete,             \* this.onComplete: 0 is null, otherwise the observer
    loopWait,               \* the _wait() processQueue is suspended on: remaining ms, or NoTimer
    inflight,               \* _processTask calls suspended on task() or on the retry _wait()
    micro,                  \* microtask queue: continuations of settled promises, FIFO
    \* ---- observation (history) variables, never read by the program ----
    nextId,                 \* number of addToQueue calls so far
    enqueuedSinceReset,     \* addToQueue calls since the last resetStats
    clearedSinceReset,      \* clearQueue was called since the last resetStats
    execCount,              \* execCount[id]: how many times item id's task() was called
    seenErrors,             \* error messages tasks have rejected with; "" stands for a success
    completeCount,          \* number of onComplete invocations
    lastCleared,            \* return value of clearQueue if it was the last call, else NoValue
    clearCount,             \* number of clearQueue calls
    resetCount,             \* number of resetStats calls
    burst,                  \* items enqueued, in arrival order, since the queue was last empty
    burstOK,                \* no dispatch, clear or retry re-insertion touched the queue since then
    addResult,              \* return value of addToQueue if it was the last call, else NoValue
    awaitingResume,         \* ids pending when the breaker last closed and not dispatched since
    closeCount,             \* number of times the circuit breaker closed
    env,                    \* the environment explored, see Environments
    onProgress,             \* this.onProgress: 0 is null, otherwise the observer
    progressSeen,           \* payloads handed to onProgress by the last step
    statsResult,            \* return values of the getStats calls since the last other step
    \* ---- BroadcastHandler (handlers/broadcastHandler.js) ----
    users,                  \* userManager.users: the ids of the users, all of them broadcastable
    sendTo,                 \* sendTo[id]: the user the task of work item id sends the draft to
    failedNow,              \* entries pushed to failedUsers by the last step
    draft,                  \* the admin session holds a broadcast draft
    broadcastRuns,          \* one record per confirmBroadcast call that got past its draft check
    reply,                  \* what the admin was last told
    \* ---- batch transfer (index.js: bot.action('transfer'), transferWithRetry) ----
    wallets,                \* wallets.length of the run, 0 before the run
    index,                  \* i + 1: the target the loop is at
    xphase,                 \* the await the run is suspended on
    attempt,                \* attempt of the transferWithRetry call in progress
    lastError,              \* lastError of that call, "" is null
    delayMs,                \* the sleep in progress, in ms
    success,                \* success counter of the run
    failed,                 \* failed counter of the run
    failedWallets,          \* failedWallets of the run
    callsMade,              \* callsMade[t]: calls of transfer() made for target t
    inFlight,               \* calls of transfer() that have not returned
    outcomes,               \* what the awaited transferWithRetry calls ended with, in order
    lastUpdateIdx,          \* lastUpdateIdx of the run
    snapshot,               \* the progress message the last step asked Telegram to show
    single,                 \* the transferWithRetry call of bot.command('single')
    \* ---- RateLimiter (middleware/rateLimiting.js) ----
    requests,               \* this.requests: key -> times of the requests recorded
    now,                    \* Date.now(), in ms since the limiter was built
    admitted,               \* observation: times of the admitted requests of the last window
    limitedResult,          \* return value of isRateLimited if it was the last call
    remainingResult         \* return value of getRemainingRequests if it was the last call

vars == <<queue, processing, currentConcurrent, consecutiveFailures,
          circuitBreakerOpen, circuitBreakerTimeout, stats, onComplete,
          loopWait, inflight, micro, nextId, enqueuedSinceReset,
          clearedSinceReset, execCount, seenErrors, completeCount,
          lastCleared, clearCount, resetCount, burst, burstOK,
          addResult, awaitingResume, closeCount, env, onProgress,
          progressSeen, statsResult, users, sendTo, failedNow, draft,
          broadcastRuns, reply,
          wallets, index, xphase, attempt, lastError, delayMs, success,
          failed, failedWallets, callsMade, inFlight, outcomes,
          lastUpdateIdx, snapshot, single, requests, now, admitted,
          limitedResult, remainingResult>>

\* state of the rate limiter
limiterVars == <<requests, now, admitted, limitedResult, remainingResult>>

\* state of the batch transfer and of the single transfer
xferVars == <<wallets, index, xphase, attempt, lastError, delayMs, success,
              failed, failedWallets, callsMade, inFlight, outcomes,
              lastUpdateIdx, snapshot, single>>

\* state of the other components, which the queue never touches
outside == <<env, users, sendTo, xferVars, limiterVars>>
\* state of the broadcast handler that only its onComplete callback touches
handler == <<draft, broadcastRuns, reply>>

\* ---------------------------------------------------------------------------
\* Program constants
\* ---------------------------------------------------------------------------
maxConcurrent == 5
maxConsecutiveFailures == 10
maxRetries == 3
baseDelay == 1000
maxDelay == 30000
LoopPause == 100
BreakerPause == 5000
BreakerCooldown == 30000
\* transferWithRetry and the batch transfer loop
transferMaxRetries == 7
rateLimitBase == 15000
databaseBase == 12000
syncingBase == 10000
otherBase == 5000
throwBase == 2000
pauseDelay == 3000
progressEvery == 10
jitterSpan == 2000

\* RateLimiter
limits ==
    [general   |-> [limit |-> 30, window |-> 60000],
     commands  |-> [limit |-> 10, window |-> 60000],
     admin     |-> [limit |-> 50, window |-> 60000],
     broadcast |-> [limit |-> 1,  window |-> 300000],
     transfer  |-> [limit |-> 2,  window |-> 60000]]
cleanupEvery == 60000
maxAge == 600000

retryableErrors ==
    {"timeout", "etimedout", "rate limit", "too many requests",
     "network", "econnreset", "flood"}

\* ---------------------------------------------------------------------------
\* Bounds of the environment
\* ---------------------------------------------------------------------------
MaxItems == 2        \* addToQueue calls in environment "calls"
MaxOrder == 3        \* addToQueue calls in environment "order"
MaxBatch == 12       \* size of the addBatch call in environment "batch"
MaxTransient == 1    \* retryable rejections in environment "batch"
MaxClears == 1       \* clearQueue calls
MaxResets == 1       \* resetStats calls
MaxReads == 2        \* consecutive getStats calls
MaxObserved == 3     \* size of the addBatch call in environment "observe"
MaxRetried == 4      \* retryable rejections in environment "requeue"
MaxUsers == 2        \* broadcastable users in environment "broadcast"
MaxRuns == 2         \* confirmBroadcast calls that get past the draft check
MaxWallets == 3      \* valid wallets of a batch transfer
MaxLong == 20        \* valid wallets of a batch transfer in environment "progress"
MaxFailed == 2       \* failed targets in environment "progress"

MaxTicks == 22       \* steps of the clock of the rate limiter
ClockStep == 30000   \* ms between two steps of that clock

\* the user and the limit types the rate limiter is called with, and its
\* keys: every key has its own entry in this.requests
Clients == {1}
LimitTypes == {"transfer", "broadcast"}
Keys == Clients \X LimitTypes

NoTimer == -1
NoValue == NoTimer     \* the same marker stands for "no call returned in the last step"

\* Three environments are explored.
\*   "calls": a few addToQueue calls of priority 0 at any time, tasks of any
\*            duration and outcome, clearQueue and resetStats at any time.
\*   "order": a few addToQueue calls of any priority at any time; every task
\*            does I/O and is fulfilled.
\*   "batch": one large batch of priority 0 whose tasks settle without I/O,
\*            with a bounded number of retryable rejections; clearQueue may
\*            be called once while the circuit breaker is open.
\* Environment "observe" is a small "batch" whose caller also registers a
\* progress observer and reads getStats (see ObserverSpec).
\* Environment "requeue" is one batch larger than maxConcurrent whose tasks
\* do I/O, some of them for longer than the three backoff delays of an item
\* take together, so that the loop is still running when a retried item
\* comes back (see RequeueSpec).
\* Environment "removal" is "delivery" with sends that also fail because the
\* user blocked the bot or is deactivated (see RemovalSpec).
\* Environment "broadcast" has BroadcastHandler as the only caller of the
\* queue (see BroadcastSpec): every task sends a message, which is I/O, and
\* the retryable rejections of a run are bounded.
Environments == {"calls", "order", "batch"}
\* the environments in which BroadcastHandler is the caller of the queue
BroadcastEnvs == {"broadcast", "delivery", "removal", "session"}
Priorities == IF env = "order" THEN {-1, 0, 1} ELSE {0}
MaxAdds ==
    IF env = "order" THEN MaxOrder
    ELSE IF env = "calls" THEN MaxItems
    ELSE IF env = "observe" THEN MaxObserved ELSE 0
\* a task that outlasts the backoff delays of an item retried to its limit
SlowTask == 10 * baseDelay
\* size of the addBatch call in environment "requeue"
MaxPending == maxConcurrent + 1
BatchSizes ==
    IF env = "batch" THEN 2..MaxBatch
    ELSE IF env = "requeue" THEN (maxConcurrent + 1)..MaxPending
    ELSE 2..MaxAdds
\* task durations in ms; 0: the task settles without I/O
TaskDurations ==
    IF env = "calls" THEN {0, 250}
    ELSE IF env \in {"order", "broadcast", "delivery", "removal", "session"} THEN {250}
    ELSE IF env = "requeue" THEN {250, SlowTask} ELSE {0}
\* floor(Math.random() * 1000), of which the lower end is drawn: the order in
\* which retried items come back still varies with their retry counts and
\* with the durations of the tasks
Jitters == {0}
\* what a task settles with: "" is a fulfilled task, anything else the
\* message of the error it rejects with
RetryBudget == IF env = "requeue" THEN MaxRetried ELSE MaxTransient
Outcomes ==
    IF env = "order" THEN {""}
    ELSE IF env = "removal"
    THEN {"", "forbidden", "blocked", "deactivated"}
         \cup (IF stats.totalRetries < RetryBudget
               THEN {"rate limit", "network blocked"} ELSE {})
    ELSE IF env = "calls" \/ stats.totalRetries < RetryBudget
    THEN {"", "rate limit", "forbidden"}
    ELSE {"", "forbidden"}

Min(a, b) == IF a < b THEN a ELSE b
Pow2(n) == IF n = 0 THEN 1 ELSE IF n = 1 THEN 2 ELSE IF n = 2 THEN 4
           ELSE IF n = 3 THEN 8 ELSE IF n = 4 THEN 16 ELSE 32

ZeroStats == [totalProcessed |-> 0, totalSuccess |-> 0,
              totalFailed |-> 0, totalRetries |-> 0]

\* ---------------------------------------------------------------------------
\* Pure helpers of the queue
\* ---------------------------------------------------------------------------
\* queueItem built by addToQueue
NewItem(id, priority) == [id |-> id, priority |-> priority, retries |-> 0]

\* Array.prototype.findIndex(item => item.priority < priority), 0 for "not found"
FindIndex(q, priority) ==
    LET hits == {i \in 1..Len(q) : q[i].priority < priority}
    IN  IF hits = {} THEN 0 ELSE CHOOSE i \in hits : \A j \in hits : i <= j

\* the insertion of addToQueue
Insert(q, item) ==
    IF item.priority > 0
    THEN LET insertIndex == FindIndex(q, item.priority)
         IN  IF insertIndex = 0
             THEN Append(q, item)
             ELSE SubSeq(q, 1, insertIndex - 1) \o <<item>> \o SubSeq(q, insertIndex, Len(q))
    ELSE Append(q, item)

\* the keywords of the program that an error message contains: a message is
\* modelled by the keyword it contains, and one message contains two
Keywords(message) ==
    IF message = "network blocked" THEN {"network", "blocked"} ELSE {message}

\* _isRetryable: the message contains one of the retryable substrings
IsRetryable(message) == Keywords(message) \cap retryableErrors # {}

\* mutant: the retry limit is tested off by one
UnderLimit_OneMore(retries) == retries <= maxRetries

\* retries < maxRetries
UnderLimit(retries) == retries < maxRetries

\* _getRetryDelay: jitter is floor(Math.random() * 1000) as the timer sees it
GetRetryDelay(retryCount, jitter) ==
    Min(baseDelay * Pow2(retryCount), maxDelay) + jitter

\* getStats
GetStats ==
    [totalProcessed |-> stats.totalProcessed, totalSuccess |-> stats.totalSuccess,
     totalFailed |-> stats.totalFailed, totalRetries |-> stats.totalRetries,
     queueLength |-> Len(queue), processing |-> processing,
     currentConcurrent |-> currentConcurrent,
     circuitBreakerOpen |-> circuitBreakerOpen]

\* ---------------------------------------------------------------------------
\* Time
\* ---------------------------------------------------------------------------
TimerSub(t, d) == IF t = NoTimer THEN NoTimer ELSE t - d
Elapse(infl, d) == {[e EXCEPT !.rem = @ - d] : e \in infl}

PendingRems ==
    (IF loopWait = NoTimer THEN {} ELSE {loopWait})
    \cup (IF circuitBreakerTimeout = NoTimer THEN {} ELSE {circuitBreakerTimeout})
    \cup {e.rem : e \in inflight}

\* a timer may fire when no microtask is queued and no timer is due before it
Due(rem) == /\ micro = <<>>
            /\ rem # NoTimer
            /\ \A r \in PendingRems : rem <= r

\* ---------------------------------------------------------------------------
\* processQueue
\* ---------------------------------------------------------------------------
\* mutant: the inner while loop without its concurrency test
NumDispatch_NoLimit(q, cc, open) ==
    IF open THEN 0 ELSE Len(q)

\* mutant: the outer loop without its circuit-breaker test
NumDispatch_IgnoreBreaker(q, cc, open) ==
    IF cc < maxConcurrent THEN Min(maxConcurrent - cc, Len(q)) ELSE 0

\* how many items one pass of the inner while loop shifts off the queue
NumDispatch(q, cc, open) ==
    IF open THEN 0
    ELSE IF cc < maxConcurrent THEN Min(maxConcurrent - cc, Len(q)) ELSE 0

\* the _processTask calls started for the items q[1..k]: task() is called at
\* once; a task that needs no I/O has its continuation queued as a microtask
StartedTasks(q, k, durs) ==
    {[item |-> q[i], phase |-> "task", rem |-> durs[i]] : i \in {j \in 1..k : durs[j] > 0}}

RECURSIVE StartedMicro(_, _, _, _)
StartedMicro(q, k, durs, i) ==
    IF i > k THEN <<>>
    ELSE (IF durs[i] = 0 THEN <<[kind |-> "settle", item |-> q[i]]>> ELSE <<>>)
         \o StartedMicro(q, k, durs, i + 1)

\* processQueue from its loop test up to the next await, or to its end.
\* durs[i] is the duration of the task of the i-th dispatched item.
ProcessQueue(q, cc, infl, mic, open, durs) ==
    IF q = <<>>
    THEN [queue |-> q, processing |-> FALSE, currentConcurrent |-> cc,
          inflight |-> infl, micro |-> mic, loopWait |-> NoTimer,
          dispatched |-> <<>>, completed |-> TRUE]
    ELSE LET k == NumDispatch(q, cc, open)
         IN  [queue |-> SubSeq(q, k + 1, Len(q)), processing |-> TRUE,
              currentConcurrent |-> cc + k,
              inflight |-> infl \cup StartedTasks(q, k, durs),
              micro |-> mic \o StartedMicro(q, k, durs, 1),
              loopWait |-> IF open THEN BreakerPause ELSE LoopPause,
              dispatched |-> SubSeq(q, 1, k), completed |-> FALSE]

Ids(q) == {q[i].id : i \in 1..Len(q)}

\* observation of a processQueue run r
ObserveRun(r) ==
    /\ execCount' = [i \in DOMAIN execCount |->
                        IF i \in Ids(r.dispatched) THEN execCount[i] + 1 ELSE execCount[i]]
    /\ awaitingResume' = awaitingResume \ Ids(r.dispatched)
    /\ completeCount' = IF r.completed /\ onComplete # 0
                        THEN completeCount + 1 ELSE completeCount

\* observation of the pending queue: q2 is the new queue, touched says that
\* something other than addToQueue's insertion changed it, added are new items
ObserveQueue(q2, touched, added) ==
    IF q2 = <<>> THEN burst' = <<>> /\ burstOK' = TRUE
    ELSE IF touched THEN burst' = <<>> /\ burstOK' = FALSE
    ELSE burst' = (IF burstOK THEN burst \o added ELSE burst) /\ UNCHANGED burstOK

\* ---------------------------------------------------------------------------
\* _processTask after task() settled
\* ---------------------------------------------------------------------------
\* mutant: a fulfilled task is not counted as processed
Settle_NoProcessed(item, outcome, jitter, infl, mic) ==
    IF outcome = ""
    THEN [stats |-> [stats EXCEPT !.totalSuccess = @ + 1],
          inflight |-> infl, micro |-> Append(mic, [kind |-> "then"])]
    ELSE IF IsRetryable(outcome) /\ UnderLimit(item.retries)
    THEN [stats |-> [stats EXCEPT !.totalRetries = @ + 1],
          inflight |-> infl \cup {[item |-> [item EXCEPT !.retries = @ + 1],
                                   phase |-> "delay",
                                   rem |-> GetRetryDelay(item.retries, jitter)]},
          micro |-> mic]
    ELSE [stats |-> [stats EXCEPT !.totalFailed = @ + 1, !.totalProcessed = @ + 1],
          inflight |-> infl, micro |-> Append(mic, [kind |-> "pass"])]

\* mutant: a retry is not counted in totalRetries
Settle_RetryUncounted(item, outcome, jitter, infl, mic) ==
    IF outcome = ""
    THEN [stats |-> [stats EXCEPT !.totalSuccess = @ + 1, !.totalProcessed = @ + 1],
          inflight |-> infl, micro |-> Append(mic, [kind |-> "then"])]
    ELSE IF IsRetryable(outcome) /\ UnderLimit(item.retries)
    THEN [stats |-> stats,
          inflight |-> infl \cup {[item |-> [item EXCEPT !.retries = @ + 1],
                                   phase |-> "delay",
                                   rem |-> GetRetryDelay(item.retries, jitter)]},
          micro |-> mic]
    ELSE [stats |-> [stats EXCEPT !.totalFailed = @ + 1, !.totalProcessed = @ + 1],
          inflight |-> infl, micro |-> Append(mic, [kind |-> "pass"])]

\* outcome "" is a fulfilled task, anything else the message of the rejection
Settle(item, outcome, jitter, infl, mic) ==
    IF outcome = ""
    THEN [stats |-> [stats EXCEPT !.totalSuccess = @ + 1, !.totalProcessed = @ + 1],
          inflight |-> infl, micro |-> Append(mic, [kind |-> "then"])]
    ELSE IF IsRetryable(outcome) /\ UnderLimit(item.retries)
    THEN [stats |-> [stats EXCEPT !.totalRetries = @ + 1],
          inflight |-> infl \cup {[item |-> [item EXCEPT !.retries = @ + 1],
                                   phase |-> "delay",
                                   rem |-> GetRetryDelay(item.retries, jitter)]},
          micro |-> mic]
    ELSE [stats |-> [stats EXCEPT !.totalFailed = @ + 1, !.totalProcessed = @ + 1],
          inflight |-> infl, micro |-> Append(mic, [kind |-> "pass"])]

ObserveSettle(outcome) == seenErrors' = seenErrors \cup {outcome}

\* error.message?.includes('blocked') || error.message?.includes('deactivated')
Recoverable(message) == Keywords(message) \cap {"blocked", "deactivated"} # {}

\* mutant: removeUser empties the store
RemoveUser_All(store, userId) == {}

\* userManager.removeUser(userId)
RemoveUser(store, userId) == store \ {userId}

\* the catch block of the task confirmBroadcast builds for a user, run when
\* sendMessage rejected for work item id; the tasks of other callers have
\* no effect on the user store
SendFailed(id, outcome) ==
    IF id \in DOMAIN sendTo /\ outcome # ""
    THEN /\ failedNow' = <<[userId |-> sendTo[id], error |-> outcome]>>
         /\ users' = IF Recoverable(outcome)
                      THEN RemoveUser(users, sendTo[id]) ELSE users
    ELSE /\ failedNow' = <<>>
         /\ UNCHANGED users

\* what _processTask hands to this.onProgress after task() settled with
\* outcome: the observer is only called on the success path
Progress(outcome) ==
    IF outcome = "" /\ onProgress # 0
    THEN <<[processed |-> stats.totalProcessed + 1,
            success |-> stats.totalSuccess + 1,
            failed |-> stats.totalFailed,
            remaining |-> Len(queue)]>>
    ELSE <<>>

\* ---------------------------------------------------------------------------
\* Initial state: the constructor
\* ---------------------------------------------------------------------------
QueueIdle ==
    /\ queue = <<>>
    /\ processing = FALSE
    /\ currentConcurrent = 0
    /\ consecutiveFailures = 0
    /\ circuitBreakerOpen = FALSE
    /\ circuitBreakerTimeout = NoTimer
    /\ stats = ZeroStats
    /\ onComplete = 0
    /\ loopWait = NoTimer
    /\ inflight = {}
    /\ micro = <<>>
    /\ nextId = 0
    /\ enqueuedSinceReset = 0
    /\ clearedSinceReset = FALSE
    /\ execCount = <<>>
    /\ seenErrors = {}
    /\ completeCount = 0
    /\ lastCleared = NoValue
    /\ clearCount = 0
    /\ resetCount = 0
    /\ burst = <<>>
    /\ burstOK = TRUE
    /\ addResult = NoValue
    /\ awaitingResume = {}
    /\ closeCount = 0
    /\ onProgress = 0
    /\ progressSeen = <<>>
    /\ sendTo = <<>>
    /\ failedNow = <<>>
    /\ statsResult = <<>>

\* no broadcast was ever prepared
HandlerIdle ==
    /\ draft = FALSE
    /\ broadcastRuns = <<>>
    /\ reply = ""

\* the admin has not sent /single
NoCall == [phase |-> "idle", attempt |-> 0]

\* no batch transfer was started
TransferIdle ==
    /\ wallets = 0
    /\ index = 0
    /\ xphase = "idle"
    /\ attempt = 0
    /\ lastError = ""
    /\ delayMs = 0
    /\ success = 0
    /\ failed = 0
    /\ failedWallets = <<>>
    /\ callsMade = <<>>
    /\ inFlight = 0
    /\ outcomes = <<>>
    /\ lastUpdateIdx = 0
    /\ snapshot = <<>>
    /\ single = NoCall

\* the RateLimiter after its constructor
LimiterIdle ==
    /\ requests = <<>>
    /\ now = 0
    /\ admitted = [k \in Keys |-> <<>>]
    /\ limitedResult = <<>>
    /\ remainingResult = <<>>

Init ==
    /\ QueueIdle
    /\ HandlerIdle
    /\ TransferIdle
    /\ LimiterIdle
    /\ users = {}
    /\ env \in Environments

\* ---------------------------------------------------------------------------
\* External calls
\* ---------------------------------------------------------------------------
\* addToQueue(task, priority) for the items `items`, inserted one after the
\* other; the first insertion starts processQueue when the queue is idle
AddAll(items, durs) ==
    LET q1 == Insert(queue, items[1])
        r  == IF processing
              THEN [queue |-> q1, processing |-> processing,
                    currentConcurrent |-> currentConcurrent, inflight |-> inflight,
                    micro |-> micro, loopWait |-> loopWait,
                    dispatched |-> <<>>, completed |-> FALSE]
              ELSE ProcessQueue(q1, currentConcurrent, inflight, micro,
                                circuitBreakerOpen, durs)
        RECURSIVE InsertAll(_, _)
        InsertAll(q, i) == IF i > Len(items) THEN q ELSE InsertAll(Insert(q, items[i]), i + 1)
    IN  [r EXCEPT !.queue = InsertAll(r.queue, 2)]

\* the queue state and its observation after AddAll(items, durs)
Enqueued(items, durs) ==
    LET r == AddAll(items, durs)
    IN  /\ queue' = r.queue
        /\ processing' = r.processing
        /\ currentConcurrent' = r.currentConcurrent
        /\ inflight' = r.inflight
        /\ micro' = r.micro
        /\ loopWait' = r.loopWait
        /\ nextId' = nextId + Len(items)
        /\ execCount' = [i \in 1..(nextId + Len(items)) |->
                            (IF i <= nextId THEN execCount[i] ELSE 0)
                            + (IF i \in Ids(r.dispatched) THEN 1 ELSE 0)]
        /\ awaitingResume' = awaitingResume \ Ids(r.dispatched)
        /\ ObserveQueue(r.queue, r.dispatched # <<>>, items)

Enqueue(items, durs) ==
    /\ Enqueued(items, durs)
    /\ enqueuedSinceReset' = enqueuedSinceReset + Len(items)
    /\ addResult' = items[Len(items)].id
    /\ UNCHANGED <<consecutiveFailures, circuitBreakerOpen,
                   circuitBreakerTimeout, stats, onComplete,
                   clearedSinceReset, seenErrors, completeCount, clearCount,
                   resetCount, closeCount>>

EnqueueDispatch(priority) ==
    IF processing THEN 0
    ELSE NumDispatch(Insert(queue, NewItem(nextId + 1, priority)),
                     currentConcurrent, circuitBreakerOpen)

addToQueue ==
    /\ nextId < MaxAdds
    /\ \E priority \in Priorities :
       \E durs \in [1..EnqueueDispatch(priority) -> TaskDurations] :
          Enqueue(<<NewItem(nextId + 1, priority)>>, durs)
    /\ UNCHANGED outside
    /\ statsResult' = <<>>
    /\ progressSeen' = <<>>
    /\ failedNow' = <<>>
    /\ UNCHANGED onProgress
    /\ UNCHANGED handler
    /\ lastCleared' = NoValue

addBatch ==
    /\ nextId = 0
    /\ env = "batch" => onComplete # 0
    /\ \E n \in BatchSizes :
       \E priority \in Priorities :
       \E durs \in [1..EnqueueDispatch(priority) -> TaskDurations] :
          Enqueue([i \in 1..n |-> NewItem(nextId + i, priority)], durs)
    /\ UNCHANGED outside
    /\ statsResult' = <<>>
    /\ progressSeen' = <<>>
    /\ failedNow' = <<>>
    /\ UNCHANGED onProgress
    /\ UNCHANGED handler
    /\ lastCleared' = NoValue

\* mutant: clearQueue counts the in-flight items as cleared
Cleared_WithInflight(q) == Len(q) + currentConcurrent

\* const cleared = this.queue.length
Cleared(q) == Len(q)

clearQueue ==
    /\ \/ env = "calls" /\ clearCount < MaxClears
       \/ env = "batch" /\ clearCount = 0 /\ circuitBreakerOpen
    /\ queue' = <<>>
    /\ lastCleared' = Cleared(queue)
    /\ clearCount' = clearCount + 1
    /\ clearedSinceReset' = TRUE
    /\ awaitingResume' = {}
    /\ ObserveQueue(<<>>, TRUE, <<>>)
    /\ UNCHANGED outside
    /\ statsResult' = <<>>
    /\ progressSeen' = <<>>
    /\ failedNow' = <<>>
    /\ UNCHANGED onProgress
    /\ UNCHANGED handler
    /\ addResult' = NoValue
    /\ UNCHANGED <<processing, currentConcurrent, consecutiveFailures,
                   circuitBreakerOpen, circuitBreakerTimeout, stats,
                   onComplete, loopWait, inflight, micro, nextId,
                   enqueuedSinceReset, execCount, seenErrors, completeCount,
                   resetCount, closeCount>>

resetStats ==
    /\ env = "calls"
    /\ resetCount < MaxResets
    /\ stats' = ZeroStats
    /\ resetCount' = resetCount + 1
    /\ enqueuedSinceReset' = 0
    /\ clearedSinceReset' = FALSE
    /\ UNCHANGED outside
    /\ statsResult' = <<>>
    /\ progressSeen' = <<>>
    /\ failedNow' = <<>>
    /\ UNCHANGED onProgress
    /\ UNCHANGED handler
    /\ lastCleared' = NoValue
    /\ addResult' = NoValue
    /\ UNCHANGED <<queue, processing, currentConcurrent, consecutiveFailures,
                   circuitBreakerOpen, circuitBreakerTimeout, onComplete,
                   loopWait, inflight, micro, nextId, execCount, seenErrors,
                   completeCount, clearCount, burst, burstOK, awaitingResume,
                   closeCount>>

setOnComplete ==
    /\ onComplete = 0
    /\ nextId = 0
    /\ onComplete' = 1
    /\ UNCHANGED outside
    /\ statsResult' = <<>>
    /\ progressSeen' = <<>>
    /\ failedNow' = <<>>
    /\ UNCHANGED onProgress
    /\ UNCHANGED handler
    /\ lastCleared' = NoValue
    /\ addResult' = NoValue
    /\ UNCHANGED <<queue, processing, currentConcurrent, consecutiveFailures,
                   circuitBreakerOpen, circuitBreakerTimeout, stats, loopWait,
                   inflight, micro, nextId, enqueuedSinceReset,
                   clearedSinceReset, execCount, seenErrors, completeCount,
                   clearCount, resetCount, burst, burstOK, awaitingResume,
                   closeCount>>

setOnProgress ==
    /\ env = "observe"
    /\ onProgress = 0
    /\ nextId = 0
    /\ onProgress' = 1
    /\ progressSeen' = <<>>
    /\ failedNow' = <<>>
    /\ statsResult' = <<>>
    /\ lastCleared' = NoValue
    /\ addResult' = NoValue
    /\ UNCHANGED outside
    /\ UNCHANGED handler
    /\ UNCHANGED <<queue, processing, currentConcurrent, consecutiveFailures,
                   circuitBreakerOpen, circuitBreakerTimeout, stats, onComplete,
                   loopWait, inflight, micro, nextId, enqueuedSinceReset,
                   clearedSinceReset, execCount, seenErrors, completeCount,
                   clearCount, resetCount, burst, burstOK, awaitingResume,
                   closeCount>>

\* mutant: getStats hands the counters out and starts them afresh
getStats_Draining ==
    /\ env = "observe"
    /\ Len(statsResult) < MaxReads
    /\ statsResult' = Append(statsResult, GetStats)
    /\ stats' = ZeroStats
    /\ progressSeen' = <<>>
    /\ failedNow' = <<>>
    /\ lastCleared' = NoValue
    /\ addResult' = NoValue
    /\ UNCHANGED outside
    /\ UNCHANGED handler
    /\ UNCHANGED <<queue, processing, currentConcurrent, consecutiveFailures,
                   circuitBreakerOpen, circuitBreakerTimeout, onComplete,
                   loopWait, inflight, micro, nextId, enqueuedSinceReset,
                   clearedSinceReset, execCount, seenErrors, completeCount,
                   clearCount, resetCount, burst, burstOK, awaitingResume,
                   closeCount, onProgress>>

\* getStats: statsResult collects the values returned by consecutive calls
getStats ==
    /\ env = "observe"
    /\ Len(statsResult) < MaxReads
    /\ statsResult' = Append(statsResult, GetStats)
    /\ progressSeen' = <<>>
    /\ failedNow' = <<>>
    /\ lastCleared' = NoValue
    /\ addResult' = NoValue
    /\ UNCHANGED outside
    /\ UNCHANGED handler
    /\ UNCHANGED <<queue, processing, currentConcurrent, consecutiveFailures,
                   circuitBreakerOpen, circuitBreakerTimeout, stats, onComplete,
                   loopWait, inflight, micro, nextId, enqueuedSinceReset,
                   clearedSinceReset, execCount, seenErrors, completeCount,
                   clearCount, resetCount, burst, burstOK, awaitingResume,
                   closeCount, onProgress>>

\* ---------------------------------------------------------------------------
\* Timers and I/O completions (macrotasks)
\* ---------------------------------------------------------------------------
\* this.onComplete(this.getStats()) at the end of the processQueue run r; in
\* environment "broadcast" the observer is the callback confirmBroadcast
\* registered for the run whose number onComplete holds
OnCompleteCallback(r) ==
    IF r.completed /\ onComplete # 0 /\ env \in BroadcastEnvs
    THEN /\ broadcastRuns' = [broadcastRuns EXCEPT ![onComplete].summaries = @ + 1]
         /\ draft' = FALSE
         /\ reply' = "summary"
    ELSE UNCHANGED handler

\* the _wait(100) or _wait(5000) of processQueue resolves: next loop iteration
LoopWake ==
    /\ Due(loopWait)
    /\ LET infl1 == Elapse(inflight, loopWait)
       IN  \E durs \in [1..NumDispatch(queue, currentConcurrent, circuitBreakerOpen)
                          -> TaskDurations] :
           LET r == ProcessQueue(queue, currentConcurrent, infl1, micro,
                                 circuitBreakerOpen, durs)
           IN  /\ queue' = r.queue
               /\ processing' = r.processing
               /\ currentConcurrent' = r.currentConcurrent
               /\ inflight' = r.inflight
               /\ micro' = r.micro
               /\ loopWait' = r.loopWait
               /\ ObserveRun(r)
               /\ OnCompleteCallback(r)
               /\ ObserveQueue(r.queue, r.dispatched # <<>>, <<>>)
    /\ circuitBreakerTimeout' = TimerSub(circuitBreakerTimeout, loopWait)
    /\ UNCHANGED outside
    /\ statsResult' = <<>>
    /\ progressSeen' = <<>>
    /\ failedNow' = <<>>
    /\ UNCHANGED onProgress
    /\ lastCleared' = NoValue
    /\ addResult' = NoValue
    /\ UNCHANGED <<consecutiveFailures, circuitBreakerOpen, stats, onComplete,
                   nextId, enqueuedSinceReset, clearedSinceReset, seenErrors,
                   clearCount, resetCount, closeCount>>

\* a task that did I/O settles; _processTask continues after `await task()`
TaskSettles ==
    /\ \E e \in inflight :
          /\ e.phase = "task"
          /\ Due(e.rem)
          /\ \E outcome \in Outcomes, jitter \in Jitters :
             LET s == Settle(e.item, outcome, jitter,
                             Elapse(inflight \ {e}, e.rem), micro)
             IN  /\ stats' = s.stats
                 /\ inflight' = s.inflight
                 /\ micro' = s.micro
                 /\ ObserveSettle(outcome)
                 /\ progressSeen' = Progress(outcome)
                 /\ SendFailed(e.item.id, outcome)
          /\ loopWait' = TimerSub(loopWait, e.rem)
          /\ circuitBreakerTimeout' = TimerSub(circuitBreakerTimeout, e.rem)
    /\ UNCHANGED <<env, sendTo, xferVars, limiterVars>>
    /\ statsResult' = <<>>
    /\ UNCHANGED onProgress
    /\ UNCHANGED handler
    /\ lastCleared' = NoValue
    /\ addResult' = NoValue
    /\ UNCHANGED <<queue, processing, currentConcurrent, consecutiveFailures,
                   circuitBreakerOpen, onComplete, nextId, enqueuedSinceReset,
                   clearedSinceReset, execCount, completeCount, clearCount,
                   resetCount, burst, burstOK, awaitingResume, closeCount>>

\* mutant: the retried item goes to the back of the queue
Reinsert_AtBack(q, item) == Append(q, item)

\* this.queue.unshift(queueItem)
Reinsert(q, item) == <<item>> \o q

\* the retry _wait(delay) resolves: the item goes back to the front of the
\* queue and _processTask returns normally
RetryReinsert ==
    /\ \E e \in inflight :
          /\ e.phase = "delay"
          /\ Due(e.rem)
          /\ queue' = Reinsert(queue, e.item)
          /\ inflight' = Elapse(inflight \ {e}, e.rem)
          /\ micro' = Append(micro, [kind |-> "then"])
          /\ loopWait' = TimerSub(loopWait, e.rem)
          /\ circuitBreakerTimeout' = TimerSub(circuitBreakerTimeout, e.rem)
          /\ ObserveQueue(Reinsert(queue, e.item), TRUE, <<>>)
    /\ UNCHANGED outside
    /\ statsResult' = <<>>
    /\ progressSeen' = <<>>
    /\ failedNow' = <<>>
    /\ UNCHANGED onProgress
    /\ UNCHANGED handler
    /\ lastCleared' = NoValue
    /\ addResult' = NoValue
    /\ UNCHANGED <<processing, currentConcurrent, consecutiveFailures,
                   circuitBreakerOpen, stats, onComplete, nextId,
                   enqueuedSinceReset, clearedSinceReset, execCount,
                   seenErrors, completeCount, clearCount, resetCount,
                   awaitingResume, closeCount>>

\* mutant: the timer callback never restarts processQueue
ResumeOnClose_Never(q, proc) == FALSE

\* if (this.queue.length > 0 && !this.processing) in the timer callback
ResumeOnClose(q, proc) == Len(q) > 0 /\ ~proc

\* the setTimeout callback of _openCircuitBreaker
BreakerReset ==
    /\ Due(circuitBreakerTimeout)
    /\ circuitBreakerOpen' = FALSE
    /\ consecutiveFailures' = 0
    /\ circuitBreakerTimeout' = NoTimer
    /\ closeCount' = closeCount + 1
    /\ LET infl1 == Elapse(inflight, circuitBreakerTimeout)
           lw1 == TimerSub(loopWait, circuitBreakerTimeout)
       IN  IF ResumeOnClose(queue, processing)
           THEN \E durs \in [1..NumDispatch(queue, currentConcurrent, FALSE)
                               -> TaskDurations] :
                LET r == ProcessQueue(queue, currentConcurrent, infl1, micro, FALSE, durs)
                IN  /\ queue' = r.queue
                    /\ processing' = r.processing
                    /\ currentConcurrent' = r.currentConcurrent
                    /\ inflight' = r.inflight
                    /\ micro' = r.micro
                    /\ loopWait' = r.loopWait
                    /\ execCount' = [i \in DOMAIN execCount |->
                                        IF i \in Ids(r.dispatched)
                                        THEN execCount[i] + 1 ELSE execCount[i]]
                    /\ awaitingResume' = Ids(r.queue)
                    /\ ObserveQueue(r.queue, r.dispatched # <<>>, <<>>)
           ELSE /\ inflight' = infl1
                /\ loopWait' = lw1
                /\ awaitingResume' = Ids(queue)
                /\ UNCHANGED <<queue, processing, currentConcurrent, micro, execCount,
                   burst, burstOK>>
    /\ UNCHANGED outside
    /\ statsResult' = <<>>
    /\ progressSeen' = <<>>
    /\ failedNow' = <<>>
    /\ UNCHANGED onProgress
    /\ UNCHANGED handler
    /\ lastCleared' = NoValue
    /\ addResult' = NoValue
    /\ UNCHANGED <<stats, onComplete, nextId, enqueuedSinceReset,
                   clearedSinceReset, seenErrors, completeCount, clearCount,
                   resetCount>>

\* ---------------------------------------------------------------------------
\* Microtasks: the head of the microtask queue runs
\* ---------------------------------------------------------------------------
\* _processTask continues after `await task()` of a task that did no I/O
MicroSettle ==
    /\ micro # <<>>
    /\ Head(micro).kind = "settle"
    /\ \E outcome \in Outcomes, jitter \in Jitters :
       LET s == Settle(Head(micro).item, outcome, jitter, inflight, Tail(micro))
       IN  /\ stats' = s.stats
           /\ inflight' = s.inflight
           /\ micro' = s.micro
           /\ ObserveSettle(outcome)
           /\ progressSeen' = Progress(outcome)
           /\ SendFailed(Head(micro).item.id, outcome)
    /\ UNCHANGED <<env, sendTo, xferVars, limiterVars>>
    /\ statsResult' = <<>>
    /\ UNCHANGED onProgress
    /\ UNCHANGED handler
    /\ lastCleared' = NoValue
    /\ addResult' = NoValue
    /\ UNCHANGED <<queue, processing, currentConcurrent, consecutiveFailures,
                   circuitBreakerOpen, circuitBreakerTimeout, onComplete,
                   loopWait, nextId, enqueuedSinceReset, clearedSinceReset,
                   execCount, completeCount, clearCount, resetCount, burst,
                   burstOK, awaitingResume, closeCount>>

\* mutant: the success callback leaves the failure counter alone
ThenCallback_KeepsCount ==
    /\ micro # <<>>
    /\ Head(micro).kind = "then"
    /\ micro' = Tail(micro)
    /\ currentConcurrent' = currentConcurrent - 1
    /\ UNCHANGED consecutiveFailures
    /\ UNCHANGED outside
    /\ statsResult' = <<>>
    /\ progressSeen' = <<>>
    /\ failedNow' = <<>>
    /\ UNCHANGED onProgress
    /\ UNCHANGED handler
    /\ lastCleared' = NoValue
    /\ addResult' = NoValue
    /\ UNCHANGED <<queue, processing, circuitBreakerOpen,
                   circuitBreakerTimeout, stats, onComplete, loopWait,
                   inflight, nextId, enqueuedSinceReset, clearedSinceReset,
                   execCount, seenErrors, completeCount, clearCount,
                   resetCount, burst, burstOK, awaitingResume, closeCount>>

\* .then(() => { currentConcurrent--; consecutiveFailures = 0 })
ThenCallback ==
    /\ micro # <<>>
    /\ Head(micro).kind = "then"
    /\ micro' = Tail(micro)
    /\ currentConcurrent' = currentConcurrent - 1
    /\ consecutiveFailures' = 0
    /\ UNCHANGED outside
    /\ statsResult' = <<>>
    /\ progressSeen' = <<>>
    /\ failedNow' = <<>>
    /\ UNCHANGED onProgress
    /\ UNCHANGED handler
    /\ lastCleared' = NoValue
    /\ addResult' = NoValue
    /\ UNCHANGED <<queue, processing, circuitBreakerOpen,
                   circuitBreakerTimeout, stats, onComplete, loopWait,
                   inflight, nextId, enqueuedSinceReset, clearedSinceReset,
                   execCount, seenErrors, completeCount, clearCount,
                   resetCount, burst, burstOK, awaitingResume, closeCount>>

\* a rejection passes through .then(), which has no rejection handler
PassThrough ==
    /\ micro # <<>>
    /\ Head(micro).kind = "pass"
    /\ micro' = Append(Tail(micro), [kind |-> "catch"])
    /\ UNCHANGED outside
    /\ statsResult' = <<>>
    /\ progressSeen' = <<>>
    /\ failedNow' = <<>>
    /\ UNCHANGED onProgress
    /\ UNCHANGED handler
    /\ lastCleared' = NoValue
    /\ addResult' = NoValue
    /\ UNCHANGED <<queue, processing, currentConcurrent, consecutiveFailures,
                   circuitBreakerOpen, circuitBreakerTimeout, stats,
                   onComplete, loopWait, inflight, nextId, enqueuedSinceReset,
                   clearedSinceReset, execCount, seenErrors, completeCount,
                   clearCount, resetCount, burst, burstOK, awaitingResume,
                   closeCount>>

\* _openCircuitBreaker: the flag, and a fresh 30 s timer replacing any old one
OpenCircuitBreaker ==
    /\ circuitBreakerOpen' = TRUE
    /\ circuitBreakerTimeout' = BreakerCooldown

\* mutant: the threshold test is off by one
ShouldOpen_Late(failures) == failures > maxConsecutiveFailures

\* does the .catch() callback open the breaker, given the new failure count
ShouldOpen(failures) == failures >= maxConsecutiveFailures

\* mutant: the rejection is not handled per item and ends processQueue, which
\* never reaches `this.processing = false`
CatchCallback_Unhandled ==
    /\ micro # <<>>
    /\ Head(micro).kind = "catch"
    /\ micro' = Tail(micro)
    /\ currentConcurrent' = currentConcurrent - 1
    /\ consecutiveFailures' = consecutiveFailures + 1
    /\ loopWait' = NoTimer
    /\ UNCHANGED outside
    /\ statsResult' = <<>>
    /\ progressSeen' = <<>>
    /\ failedNow' = <<>>
    /\ UNCHANGED onProgress
    /\ UNCHANGED handler
    /\ lastCleared' = NoValue
    /\ addResult' = NoValue
    /\ UNCHANGED <<queue, processing, stats, onComplete, inflight,
                   circuitBreakerOpen, circuitBreakerTimeout,
                   nextId, enqueuedSinceReset, clearedSinceReset, execCount,
                   seenErrors, completeCount, clearCount, resetCount, burst,
                   burstOK, awaitingResume, closeCount>>

\* .catch(error => { currentConcurrent--; consecutiveFailures++; ... })
CatchCallback ==
    /\ micro # <<>>
    /\ Head(micro).kind = "catch"
    /\ micro' = Tail(micro)
    /\ currentConcurrent' = currentConcurrent - 1
    /\ consecutiveFailures' = consecutiveFailures + 1
    /\ IF ShouldOpen(consecutiveFailures + 1)
       THEN OpenCircuitBreaker
       ELSE UNCHANGED <<circuitBreakerOpen, circuitBreakerTimeout>>
    /\ UNCHANGED outside
    /\ statsResult' = <<>>
    /\ progressSeen' = <<>>
    /\ failedNow' = <<>>
    /\ UNCHANGED onProgress
    /\ UNCHANGED handler
    /\ lastCleared' = NoValue
    /\ addResult' = NoValue
    /\ UNCHANGED <<queue, processing, stats, onComplete, loopWait, inflight,
                   nextId, enqueuedSinceReset, clearedSinceReset, execCount,
                   seenErrors, completeCount, clearCount, resetCount, burst,
                   burstOK, awaitingResume, closeCount>>

Next ==
    \/ addToQueue
    \/ addBatch
    \/ clearQueue
    \/ resetStats
    \/ setOnComplete
    \/ LoopWake
    \/ TaskSettles
    \/ RetryReinsert
    \/ BreakerReset
    \/ MicroSettle
    \/ ThenCallback
    \/ PassThrough
    \/ CatchCallback

Spec == Init /\ [][Next]_vars

\* The event loop runs every due timer and every queued microtask; calls
\* from outside are not bound to happen.
Fairness ==
    /\ WF_vars(LoopWake)
    /\ WF_vars(TaskSettles)
    /\ WF_vars(RetryReinsert)
    /\ WF_vars(BreakerReset)
    /\ WF_vars(MicroSettle)
    /\ WF_vars(ThenCallback)
    /\ WF_vars(PassThrough)
    /\ WF_vars(CatchCallback)

\* The circuit breaker only opens in environment "batch", where no task does
\* I/O: liveness is checked there.
BatchInit == Init /\ env = "batch"

BatchNext ==
    \/ addBatch
    \/ clearQueue
    \/ setOnComplete
    \/ LoopWake
    \/ RetryReinsert
    \/ BreakerReset
    \/ MicroSettle
    \/ ThenCallback
    \/ PassThrough
    \/ CatchCallback

FairSpec == BatchInit /\ [][BatchNext]_vars /\ Fairness

\* A caller that enqueues one small batch, may register both observers
\* before it and reads getStats at any time.
ObserverInit ==
    /\ QueueIdle
    /\ HandlerIdle
    /\ TransferIdle
    /\ LimiterIdle
    /\ users = {}
    /\ env = "observe"

ObserverNext ==
    \/ addBatch
    \/ setOnComplete
    \/ setOnProgress
    \/ getStats
    \/ LoopWake
    \/ RetryReinsert
    \/ MicroSettle
    \/ ThenCallback
    \/ PassThrough
    \/ CatchCallback

ObserverSpec == ObserverInit /\ [][ObserverNext]_vars

\* A caller that enqueues one batch larger than maxConcurrent of tasks that
\* do I/O, so that retried items come back while the loop is running.
RequeueInit ==
    /\ QueueIdle
    /\ HandlerIdle
    /\ TransferIdle
    /\ LimiterIdle
    /\ users = {}
    /\ env = "requeue"

RequeueNext ==
    \/ addBatch
    \/ LoopWake
    \/ TaskSettles
    \/ RetryReinsert
    \/ ThenCallback
    \/ PassThrough
    \/ CatchCallback

RequeueSpec == RequeueInit /\ [][RequeueNext]_vars

\* ---------------------------------------------------------------------------
\* BroadcastHandler (handlers/broadcastHandler.js) on top of the queue
\* ---------------------------------------------------------------------------
\* the queue variables a handler step leaves alone when it makes no queue call
queueCore == <<queue, processing, currentConcurrent, consecutiveFailures,
               circuitBreakerOpen, circuitBreakerTimeout, loopWait, inflight,
               micro, nextId, execCount, seenErrors, completeCount,
               clearCount, burst, burstOK, awaitingResume, closeCount,
               onProgress>>

\* stats and the variables following resetStats and setOnComplete
queueRun == <<stats, onComplete, resetCount, enqueuedSinceReset, clearedSinceReset>>

\* no queue call returns a value in the step
NoReturn ==
    /\ lastCleared' = NoValue
    /\ addResult' = NoValue
    /\ progressSeen' = <<>>
    /\ failedNow' = <<>>
    /\ statsResult' = <<>>

\* Environment "delivery" is "broadcast" with a fixed list of users, an
\* admin who confirms at most twice and never cancels, and Telegram calls of
\* the handler that do not fail (see DeliverySpec).
RunLimit ==
    IF env \in {"delivery", "session"} THEN 2
    ELSE IF env = "removal" THEN 1 ELSE MaxRuns

\* Environment "session" is "delivery" with an admin who prepares one draft,
\* as the first thing they do, and may cancel it, and whose session may
\* expire (see SessionSpec).
MayDraft == env = "session" => reply = ""

\* a run of confirmBroadcast that got past its draft check
NewRun == [state |-> "confirming", users |-> <<>>, targets |-> 0, summaries |-> 0]

\* userManager.getBroadcastableUsers().length
userCount == Cardinality(users)

\* getBroadcastableUsers(): the users of the store in the order of the Map,
\* which is the order of their ids
RECURSIVE UserList(_)
UserList(S) ==
    IF S = {} THEN <<>>
    ELSE LET first == CHOOSE u \in S : \A v \in S : u <= v
         IN  <<first>> \o UserList(S \ {first})

\* users join, leave or block the bot
UserStoreChanges ==
    /\ env = "broadcast"
    /\ \E n \in 0..MaxUsers : n # userCount /\ users' = 1..n
    /\ NoReturn
    /\ UNCHANGED <<env, xferVars, limiterVars, sendTo, handler, queueCore, queueRun>>

\* initiateBroadcast with a valid message: an empty target list is refused,
\* otherwise the draft is stored and the confirmation is asked for
initiateBroadcast ==
    /\ env \in BroadcastEnvs
    /\ MayDraft
    /\ IF userCount = 0
       THEN reply' = "no_users" /\ UNCHANGED draft
       ELSE reply' = "confirm" /\ draft' = TRUE
    /\ NoReturn
    /\ UNCHANGED <<env, xferVars, limiterVars, users, sendTo, broadcastRuns, queueCore, queueRun>>

\* cancelBroadcast
cancelBroadcast ==
    /\ env \in {"broadcast", "session"}
    /\ draft' = FALSE
    /\ reply' = "cancelled"
    /\ NoReturn
    /\ UNCHANGED <<env, xferVars, limiterVars, users, sendTo, broadcastRuns, queueCore, queueRun>>

\* cleanupExpiredSessions deletes the session of the admin, who was idle for
\* longer than sessionTimeout: the next getSession creates an empty one.
\* The timeout is longer than every timer of the queue, so none is pending.
SessionExpires ==
    /\ env = "session"
    /\ draft
    /\ micro = <<>>
    /\ PendingRems = {}
    /\ draft' = FALSE
    /\ NoReturn
    /\ UNCHANGED <<env, xferVars, limiterVars, users, sendTo, broadcastRuns, reply, queueCore, queueRun>>

\* mutant: confirmBroadcast goes on without a draft
DraftFound_Always(d) == TRUE

\* if (!draft) of confirmBroadcast, d being session.broadcastDraft
DraftFound(d) == d

\* confirmBroadcast up to its first await: the draft check
confirmBroadcast ==
    /\ env \in BroadcastEnvs
    /\ DraftFound(draft) => Len(broadcastRuns) < RunLimit
    /\ IF DraftFound(draft)
       THEN broadcastRuns' = Append(broadcastRuns, NewRun) /\ UNCHANGED reply
       ELSE reply' = "no_draft" /\ UNCHANGED broadcastRuns
    /\ NoReturn
    /\ UNCHANGED <<env, xferVars, limiterVars, users, sendTo, draft, queueCore, queueRun>>

\* confirmBroadcast after `await ctx.answerCbQuery`: the target list is read
\* and the status message is sent
BroadcastRead ==
    /\ micro = <<>>
    /\ \E r \in DOMAIN broadcastRuns :
          /\ broadcastRuns[r].state = "confirming"
          /\ broadcastRuns' = [broadcastRuns EXCEPT ![r].state = "announcing",
                                                    ![r].users = UserList(users),
                                                    ![r].targets = userCount]
    /\ NoReturn
    /\ UNCHANGED <<env, xferVars, limiterVars, users, sendTo, draft, reply, queueCore, queueRun>>

\* one of the awaited Telegram calls rejects: the catch block of
\* confirmBroadcast reports the failure and the run ends
BroadcastAbort ==
    /\ micro = <<>>
    /\ \E r \in DOMAIN broadcastRuns :
          /\ broadcastRuns[r].state \in {"confirming", "announcing"}
          /\ broadcastRuns' = [broadcastRuns EXCEPT ![r].state = "aborted"]
    /\ reply' = "failed"
    /\ NoReturn
    /\ UNCHANGED <<env, xferVars, limiterVars, users, sendTo, draft, queueCore, queueRun>>

\* mutant: the sends are enqueued ahead of other pending work
BroadcastItems_Urgent(first, n) == [i \in 1..n |-> NewItem(first + i, 1)]

\* the work items of `await broadcastQueueManager.addToQueue(task)` for the
\* n users of the list, first being the number of items enqueued before
BroadcastItems(first, n) == [i \in 1..n |-> NewItem(first + i, 0)]

\* confirmBroadcast after `await ctx.editMessageText` for run r: resetStats,
\* one awaited addToQueue per target, then setOnComplete.  The awaits of the
\* loop are microtask hops and the tasks started meanwhile do I/O, so no
\* other callback runs in between.
BroadcastEnqueue(r) ==
    /\ broadcastRuns[r].state = "announcing"
    /\ broadcastRuns' = [broadcastRuns EXCEPT ![r].state = "enqueued"]
    /\ reply' = "broadcasting"
    /\ stats' = ZeroStats
    /\ resetCount' = resetCount + 1
    /\ clearedSinceReset' = FALSE
    /\ enqueuedSinceReset' = broadcastRuns[r].targets
    /\ onComplete' = r
    /\ LET n == broadcastRuns[r].targets
       IN  IF n = 0
           THEN /\ addResult' = NoValue
                /\ UNCHANGED <<queue, processing, currentConcurrent, inflight,
                               micro, loopWait, nextId, execCount,
                               awaitingResume, burst, burstOK, sendTo>>
           ELSE \E durs \in [1..EnqueueDispatch(0) -> TaskDurations] :
                   /\ Enqueued(BroadcastItems(nextId, n), durs)
                   /\ addResult' = nextId + n
                   /\ sendTo' = [id \in 1..(nextId + n) |->
                                    IF id <= nextId THEN sendTo[id]
                                    ELSE broadcastRuns[r].users[id - nextId]]
    /\ lastCleared' = NoValue
    /\ progressSeen' = <<>>
    /\ failedNow' = <<>>
    /\ statsResult' = <<>>
    /\ failedNow' = <<>>
    /\ UNCHANGED <<env, xferVars, limiterVars, users, draft, consecutiveFailures,
                   circuitBreakerOpen, circuitBreakerTimeout, seenErrors,
                   completeCount, clearCount, closeCount, onProgress>>

BroadcastStart ==
    /\ micro = <<>>
    /\ \E r \in DOMAIN broadcastRuns : BroadcastEnqueue(r)

BroadcastInit ==
    /\ QueueIdle
    /\ HandlerIdle
    /\ TransferIdle
    /\ LimiterIdle
    /\ users \in {1..n : n \in 0..MaxUsers}
    /\ env = "broadcast"

\* the queue reaches neither a task without I/O nor ten consecutive failures
\* with this caller, so MicroSettle and BreakerReset have no step here
BroadcastNext ==
    \/ UserStoreChanges
    \/ initiateBroadcast
    \/ cancelBroadcast
    \/ confirmBroadcast
    \/ BroadcastRead
    \/ BroadcastAbort
    \/ BroadcastStart
    \/ LoopWake
    \/ TaskSettles
    \/ RetryReinsert
    \/ ThenCallback
    \/ PassThrough
    \/ CatchCallback

BroadcastSpec == BroadcastInit /\ [][BroadcastNext]_vars

DeliveryInit ==
    /\ QueueIdle
    /\ HandlerIdle
    /\ TransferIdle
    /\ LimiterIdle
    /\ users \in {1..n : n \in 1..MaxUsers}
    /\ env = "delivery"

DeliveryNext ==
    \/ initiateBroadcast
    \/ confirmBroadcast
    \/ BroadcastRead
    \/ BroadcastStart
    \/ LoopWake
    \/ TaskSettles
    \/ RetryReinsert
    \/ ThenCallback
    \/ PassThrough
    \/ CatchCallback

DeliverySpec == DeliveryInit /\ [][DeliveryNext]_vars

RemovalInit ==
    /\ QueueIdle
    /\ HandlerIdle
    /\ TransferIdle
    /\ LimiterIdle
    /\ users \in {1..n : n \in 1..MaxUsers}
    /\ env = "removal"

RemovalNext ==
    \/ initiateBroadcast
    \/ confirmBroadcast
    \/ BroadcastRead
    \/ BroadcastStart
    \/ LoopWake
    \/ TaskSettles
    \/ RetryReinsert
    \/ ThenCallback
    \/ PassThrough
    \/ CatchCallback

RemovalSpec == RemovalInit /\ [][RemovalNext]_vars

SessionInit ==
    /\ QueueIdle
    /\ HandlerIdle
    /\ TransferIdle
    /\ LimiterIdle
    /\ users \in {1..n : n \in 1..MaxUsers}
    /\ env = "session"

SessionNext ==
    \/ initiateBroadcast
    \/ cancelBroadcast
    \/ SessionExpires
    \/ confirmBroadcast
    \/ BroadcastRead
    \/ BroadcastStart
    \/ LoopWake
    \/ TaskSettles
    \/ RetryReinsert
    \/ ThenCallback
    \/ PassThrough
    \/ CatchCallback

SessionSpec == SessionInit /\ [][SessionNext]_vars

\* every awaited Telegram call of confirmBroadcast returns or rejects
FairBroadcastSpec ==
    /\ BroadcastSpec
    /\ Fairness
    /\ WF_vars(BroadcastRead \/ BroadcastAbort)
    /\ WF_vars(BroadcastStart \/ BroadcastAbort)

\* ---------------------------------------------------------------------------
\* Batch transfer (index.js): bot.action('transfer') and transferWithRetry
\* ---------------------------------------------------------------------------
\* what a call of transfer() ends with: "ok" is a result with success set,
\* "throw" a rejected call, anything else the message of a failure result
\* ("" is a failure result without message)
Responses ==
    IF env = "progress"
    THEN IF failed < MaxFailed THEN {"ok", "Insufficient balance"} ELSE {"ok"}
    ELSE {"ok", "Rate limit", "timeout", "Insufficient balance", "", "throw"}

\* Math.floor(Math.random() * 2000) of randomJitter
TransferJitters == {0, 1999}
\* every value it can take
JitterRange == 0..(jitterSpan - 1)

\* error.message of a rejected transfer() call: fetch rejects with
\* TypeError('fetch failed') when the request does not get through
ThrownMessage == "fetch failed"

\* the message of the error a transfer() call ended with
MessageOf(resp) == IF resp = "throw" THEN ThrownMessage ELSE resp

\* the messages transferWithRetry tries again on
RetriedClasses ==
    {"Internal database error", "timeout", "Rate limit", "network guardians",
     "syncing"}
IsTransient(errorMsg) == errorMsg \in RetriedClasses

\* mutant: every class backs off with the same base
BackoffDelay_OneBase(errorMsg, att, jitter) == otherBase * att + jitter

\* delayMs after a transient failure result
BackoffDelay(errorMsg, att, jitter) ==
    IF errorMsg = "Rate limit" THEN rateLimitBase * att + jitter
    ELSE IF errorMsg = "Internal database error" THEN databaseBase * att + jitter
    ELSE IF errorMsg \in {"network guardians", "syncing"} THEN syncingBase * att + jitter
    ELSE otherBase * att + jitter

\* the sleep after a rejected call
ThrowDelay(att) == throwBase * att

\* if (attempt < maxRetries)
MoreAttempts(att) == att < transferMaxRetries

\* mutant: a call rejected on the last attempt is thrown on to the caller
TransferStep_Rethrow(resp, att, jitter) ==
    IF resp = "throw"
    THEN IF MoreAttempts(att)
         THEN [kind |-> "sleep", delay |-> ThrowDelay(att), lastError |-> "throw"]
         ELSE [kind |-> "throw", result |-> "throw", attempts |-> 0]
    ELSE IF resp = "ok"
    THEN [kind |-> "return", success |-> TRUE, result |-> resp, attempts |-> att]
    ELSE IF IsTransient(resp) /\ MoreAttempts(att)
    THEN [kind |-> "sleep", delay |-> BackoffDelay(resp, att, jitter), lastError |-> resp]
    ELSE [kind |-> "return", success |-> FALSE, result |-> resp, attempts |-> att]

\* one pass of the for loop of transferWithRetry after `await transfer()`
\* ended with resp: either the call returns or it sleeps before the next pass
TransferStep(resp, att, jitter) ==
    IF resp = "throw"
    THEN IF MoreAttempts(att)
         THEN [kind |-> "sleep", delay |-> ThrowDelay(att), lastError |-> "throw"]
         ELSE [kind |-> "return", success |-> FALSE, result |-> "throw",
               attempts |-> transferMaxRetries]
    ELSE IF resp = "ok"
    THEN [kind |-> "return", success |-> TRUE, result |-> resp, attempts |-> att]
    ELSE IF IsTransient(resp) /\ MoreAttempts(att)
    THEN [kind |-> "sleep", delay |-> BackoffDelay(resp, att, jitter), lastError |-> resp]
    ELSE [kind |-> "return", success |-> FALSE, result |-> resp, attempts |-> att]

\* mutant: the run stops at the first failed target
AfterItem_AbortOnFailure(i, n, ok) ==
    IF ok /\ i < n THEN "pause" ELSE "done"

\* the end of the loop body: sleep(delay) unless this was the last target
AfterItem(i, n, ok) ==
    IF i < n THEN "pause" ELSE "done"

\* mutant: the loop does not wait for transferWithRetry to return
MayAdvance_NoAwait(ph) == ph \in {"pause", "backoff"}

\* the sleep the loop body ends with
PauseFor(ph) == IF ph = "pause" THEN pauseDelay ELSE 0

\* the loop goes on to the next target when sleep(delay) is over
MayAdvance(ph) == ph = "pause"

\* result?.message || 'Unknown error'
FailureReason(result) == IF result = "" THEN "Unknown error" ELSE result

\* Three environments are explored: "transfer" with up to MaxWallets valid
\* wallets, "retry" with one wallet less, where termination is checked, and
\* "progress" with a long list of wallets whose transfers are not retried
\* and seldom fail.
BatchLimit == IF env \in {"retry", "handlers"} THEN MaxWallets - 1 ELSE MaxWallets
WalletCounts ==
    IF env = "progress" THEN {MaxLong - 1, MaxLong} ELSE 1..BatchLimit

\* mutant: only the first progress message is sent
EmitsProgress_Once(idx, last) == idx = progressEvery /\ idx - 1 # last

\* (i + 1) % 10 === 0 && i !== lastUpdateIdx, with idx = i + 1
EmitsProgress(idx, last) == idx % progressEvery = 0 /\ idx - 1 # last

\* what claimMysteryBox and getTweetContent, awaited in the inner try block,
\* end with: a reward, a result without reward, or an exception
RewardResults == {"reward", "nothing", "throw"}

\* mutant: an exception of the reward claim reaches the catch block of the
\* loop body
Swallowed_ResultsOnly(rw) == rw # "throw"

\* catch (e) {} of the inner try block
Swallowed(rw) == TRUE

\* the loop body after the target was counted, s and f being the counters:
\* the progress message is sent if it is due, else the loop body ends
ItemDone(ok, s, f) ==
    IF EmitsProgress(index, lastUpdateIdx)
    THEN /\ xphase' = "progress"
         /\ delayMs' = 0
         /\ snapshot' = <<[processed |-> index, success |-> s, failed |-> f]>>
    ELSE /\ xphase' = AfterItem(index, wallets, ok)
         /\ delayMs' = PauseFor(AfterItem(index, wallets, ok))
         /\ snapshot' = <<>>

\* transfer() is called for target t
CallTransfer(t) ==
    /\ callsMade' = [callsMade EXCEPT ![t] = @ + 1]
    /\ inFlight' = inFlight + 1
    /\ xphase' = "transfer"

\* the state of everything but the batch transfer
notTransfer == <<env, users, sendTo, failedNow, handler, queueCore, queueRun, lastCleared,
                 addResult, progressSeen, statsResult, single, limiterVars>>

\* bot.action('transfer') with n valid wallets up to the first transfer() call
StartBatch ==
    /\ env \in {"transfer", "retry", "progress", "handlers"}
    /\ xphase = "idle"
    /\ \E n \in WalletCounts :
          /\ wallets' = n
          /\ callsMade' = [t \in 1..n |-> IF t = 1 THEN 1 ELSE 0]
    /\ index' = 1
    /\ attempt' = 1
    /\ inFlight' = inFlight + 1
    /\ xphase' = "transfer"
    /\ UNCHANGED <<lastError, delayMs, success, failed, failedWallets, outcomes,
                   lastUpdateIdx, snapshot>>
    /\ UNCHANGED notTransfer

\* `await transfer()` ends: transferWithRetry sleeps, or it returns and the
\* loop body of the run counts the outcome
TransferSettles ==
    /\ xphase = "transfer"
    /\ inFlight' = inFlight - 1
    /\ \E resp \in Responses, jitter \in TransferJitters :
       LET st == TransferStep(resp, attempt, jitter)
       IN  IF st.kind = "sleep"
           THEN /\ xphase' = "backoff"
                /\ delayMs' = st.delay
                /\ lastError' = st.lastError
                /\ snapshot' = <<>>
                /\ UNCHANGED <<success, failed, failedWallets, outcomes>>
           ELSE /\ outcomes' = Append(outcomes, [idx |-> index, kind |-> st.kind,
                                                  ok |-> st.kind = "return" /\ st.success,
                                                  result |-> st.result,
                                                  attempts |-> st.attempts,
                                                  last |-> resp])
                /\ lastError' = ""
                /\ IF st.kind = "return" /\ st.success
                   THEN /\ success' = success + 1
                        /\ xphase' = "reward"
                        /\ delayMs' = 0
                        /\ snapshot' = <<>>
                        /\ UNCHANGED <<failed, failedWallets>>
                   ELSE /\ failed' = failed + 1
                        /\ failedWallets' =
                              Append(failedWallets,
                                     [idx |-> index,
                                      error |-> IF st.kind = "throw" THEN st.result
                                                ELSE FailureReason(st.result)])
                        /\ ItemDone(FALSE, success, failed + 1)
                        /\ UNCHANGED success
    /\ UNCHANGED <<wallets, index, attempt, callsMade, lastUpdateIdx>>
    /\ UNCHANGED notTransfer

\* the sleep of transferWithRetry is over: next pass of its for loop
BackoffEnds ==
    /\ xphase = "backoff"
    /\ attempt' = attempt + 1
    /\ delayMs' = 0
    /\ CallTransfer(index)
    /\ snapshot' = <<>>
    /\ UNCHANGED <<wallets, index, lastError, success, failed, failedWallets,
                   outcomes, lastUpdateIdx>>
    /\ UNCHANGED notTransfer

\* claimMysteryBox and getTweetContent after a successful transfer have
\* returned or thrown
RewardDone ==
    /\ xphase = "reward"
    /\ \E rw \in RewardResults :
          IF Swallowed(rw)
          THEN /\ ItemDone(TRUE, success, failed)
               /\ UNCHANGED <<failed, failedWallets>>
          ELSE /\ failed' = failed + 1
               /\ failedWallets' = Append(failedWallets, [idx |-> index, error |-> rw])
               /\ ItemDone(FALSE, success, failed + 1)
    /\ UNCHANGED <<wallets, index, attempt, lastError, success, callsMade,
                   inFlight, outcomes, lastUpdateIdx>>
    /\ UNCHANGED notTransfer

\* `await ctx.editMessageText(progressMsg)` has returned or thrown; only a
\* message that was shown is remembered in lastUpdateIdx
ProgressSent ==
    /\ xphase = "progress"
    /\ \E shown \in BOOLEAN :
          lastUpdateIdx' = IF shown THEN index - 1 ELSE lastUpdateIdx
    /\ xphase' = AfterItem(index, wallets, outcomes[Len(outcomes)].ok)
    /\ delayMs' = PauseFor(AfterItem(index, wallets, outcomes[Len(outcomes)].ok))
    /\ snapshot' = <<>>
    /\ UNCHANGED <<wallets, index, attempt, lastError, success, failed,
                   failedWallets, callsMade, inFlight, outcomes>>
    /\ UNCHANGED notTransfer

\* sleep(delay) between two targets is over: transferWithRetry for the next
PauseEnds ==
    /\ MayAdvance(xphase)
    /\ index < wallets
    /\ index' = index + 1
    /\ attempt' = 1
    /\ lastError' = ""
    /\ delayMs' = 0
    /\ CallTransfer(index + 1)
    /\ snapshot' = <<>>
    /\ UNCHANGED <<wallets, success, failed, failedWallets, outcomes, lastUpdateIdx>>
    /\ UNCHANGED notTransfer

TransferInit ==
    /\ QueueIdle
    /\ HandlerIdle
    /\ TransferIdle
    /\ LimiterIdle
    /\ users = {}
    /\ env = "transfer"

TransferNext ==
    \/ StartBatch
    \/ TransferSettles
    \/ BackoffEnds
    \/ RewardDone
    \/ PauseEnds

TransferSpec == TransferInit /\ [][TransferNext]_vars

RetryInit ==
    /\ QueueIdle
    /\ HandlerIdle
    /\ TransferIdle
    /\ LimiterIdle
    /\ users = {}
    /\ env = "retry"

\* a long batch transfer: every progress message falls due
ProgressInit ==
    /\ QueueIdle
    /\ HandlerIdle
    /\ TransferIdle
    /\ LimiterIdle
    /\ users = {}
    /\ env = "progress"

ProgressNext ==
    \/ StartBatch
    \/ TransferSettles
    \/ RewardDone
    \/ ProgressSent
    \/ PauseEnds

ProgressSpec == ProgressInit /\ [][ProgressNext]_vars

\* ---------------------------------------------------------------------------
\* bot.command('single') next to the batch transfer
\* ---------------------------------------------------------------------------
\* the batch transfer of everything but inFlight, which both handlers count in
batchOnly == <<wallets, index, xphase, attempt, lastError, delayMs, success,
               failed, failedWallets, callsMade, outcomes, lastUpdateIdx>>

\* the rest of the state, which the single transfer leaves alone
notSingle == <<env, users, sendTo, failedNow, handler, queueCore, queueRun,
               lastCleared, addResult, progressSeen, statsResult, batchOnly,
               limiterVars>>

\* bot.command('single') with a valid address and amount, up to the first
\* transfer() call of its transferWithRetry
singleCommand ==
    /\ env = "handlers"
    /\ single.phase = "idle"
    /\ single' = [phase |-> "transfer", attempt |-> 1]
    /\ inFlight' = inFlight + 1
    /\ snapshot' = <<>>
    /\ UNCHANGED notSingle

\* `await transfer()` of the single transfer ends: transferWithRetry sleeps
\* or returns, and the handler reports the result
SingleSettles ==
    /\ single.phase = "transfer"
    /\ inFlight' = inFlight - 1
    /\ \E resp \in Responses, jitter \in TransferJitters :
          single' = [single EXCEPT
                        !.phase = IF TransferStep(resp, single.attempt, jitter).kind = "sleep"
                                  THEN "backoff" ELSE "done"]
    /\ snapshot' = <<>>
    /\ UNCHANGED notSingle

\* the sleep of that transferWithRetry is over: next pass of its for loop
SingleBackoffEnds ==
    /\ single.phase = "backoff"
    /\ single' = [phase |-> "transfer", attempt |-> single.attempt + 1]
    /\ inFlight' = inFlight + 1
    /\ snapshot' = <<>>
    /\ UNCHANGED notSingle

\* Environment "handlers": the admin starts a batch transfer and sends
\* /single; Telegraf hands each update to its handler as it arrives.
HandlersInit ==
    /\ QueueIdle
    /\ HandlerIdle
    /\ TransferIdle
    /\ LimiterIdle
    /\ users = {}
    /\ env = "handlers"

HandlersNext ==
    \/ StartBatch
    \/ TransferSettles
    \/ BackoffEnds
    \/ RewardDone
    \/ PauseEnds
    \/ singleCommand
    \/ SingleSettles
    \/ SingleBackoffEnds

HandlersSpec == HandlersInit /\ [][HandlersNext]_vars

\* ---------------------------------------------------------------------------
\* RateLimiter (middleware/rateLimiting.js)
\* ---------------------------------------------------------------------------
\* this.limits[type] || this.limits.general
LimitOf(type) == IF type \in DOMAIN limits THEN limits[type] ELSE limits.general

\* userRequests.filter(time => t - time < window)
ValidRequests(userRequests, t, window) ==
    SelectSeq(userRequests, LAMBDA time : t - time < window)

\* this.requests.get(key) || []
RequestsOf(key) == IF key \in DOMAIN requests THEN requests[key] ELSE <<>>

\* mutant: one request more than the limit is admitted
AtLimit_OneMore(n, limit) == n > limit

\* validRequests.length >= limit.limit
AtLimit(n, limit) == n >= limit

\* the rest of the state, which the rate limiter leaves alone
notLimiter == <<env, users, sendTo, failedNow, handler, queueCore, queueRun,
                lastCleared, addResult, progressSeen, statsResult, xferVars>>

\* isRateLimited(userId, type): the filtered array is stored, and the
\* request is pushed on it unless the limit is reached
isRateLimited ==
    /\ env = "limiter"
    /\ \E key \in Keys :
          LET limit == LimitOf(key[2])
              validRequests == ValidRequests(RequestsOf(key), now, limit.window)
              limited == AtLimit(Len(validRequests), limit.limit)
          IN  /\ requests' = [k \in DOMAIN requests \cup {key} |->
                                 IF k # key THEN requests[k]
                                 ELSE IF limited THEN validRequests
                                 ELSE Append(validRequests, now)]
              /\ admitted' = [admitted EXCEPT
                                 ![key] = IF limited THEN @ ELSE Append(@, now)]
              /\ limitedResult' = <<[key |-> key, value |-> limited]>>
    /\ remainingResult' = <<>>
    /\ UNCHANGED now
    /\ UNCHANGED notLimiter

\* getRemainingRequests(userId, type)
getRemainingRequests ==
    /\ env = "limiter"
    /\ \E key \in Keys :
          LET limit == LimitOf(key[2])
              validRequests == ValidRequests(RequestsOf(key), now, limit.window)
              left == limit.limit - Len(validRequests)
          IN  remainingResult' = <<[key |-> key,
                                    value |-> IF left > 0 THEN left ELSE 0]>>
    /\ limitedResult' = <<>>
    /\ UNCHANGED <<requests, now, admitted>>
    /\ UNCHANGED notLimiter

\* cleanup() at time t: requests older than maxAge are dropped, and so are
\* the keys left without requests
Cleanup(reqs, t) ==
    LET kept == {k \in DOMAIN reqs : ValidRequests(reqs[k], t, maxAge) # <<>>}
    IN  [k \in kept |-> ValidRequests(reqs[k], t, maxAge)]

\* ClockStep ms pass without a call; the setInterval callback runs cleanup()
\* at every multiple of cleanupEvery on the way.  The observer forgets the
\* admitted requests that have left the window of their type.
TimePasses ==
    /\ env = "limiter"
    /\ now + ClockStep <= MaxTicks * ClockStep
    /\ now' = now + ClockStep
    /\ requests' = IF now' \div cleanupEvery > now \div cleanupEvery
                   THEN Cleanup(requests, (now' \div cleanupEvery) * cleanupEvery)
                   ELSE requests
    /\ admitted' = [k \in Keys |->
                      ValidRequests(admitted[k], now', LimitOf(k[2]).window)]
    /\ limitedResult' = <<>>
    /\ remainingResult' = <<>>
    /\ UNCHANGED notLimiter

LimiterInit ==
    /\ QueueIdle
    /\ HandlerIdle
    /\ TransferIdle
    /\ LimiterIdle
    /\ users = {}
    /\ env = "limiter"

LimiterNext ==
    \/ isRateLimited
    \/ getRemainingRequests
    \/ TimePasses

LimiterSpec == LimiterInit /\ [][LimiterNext]_vars

\* every call of transfer() returns or rejects and every timer fires
FairTransferSpec ==
    /\ RetryInit
    /\ [][TransferNext]_vars
    /\ WF_vars(TransferSettles)
    /\ WF_vars(BackoffEnds)
    /\ WF_vars(RewardDone)
    /\ WF_vars(PauseEnds)

TypeOK ==
    /\ currentConcurrent \in 0..maxConcurrent
    /\ processing \in BOOLEAN
    /\ (processing <=> loopWait # NoTimer)
    /\ currentConcurrent = Cardinality(inflight) + Len(micro)

\* ---------------------------------------------------------------------------
\* Properties
\* ---------------------------------------------------------------------------
\* nothing is in flight and no timer is pending: only a call from outside
\* can make the queue do anything
Quiescent ==
    /\ inflight = {}
    /\ micro = <<>>
    /\ loopWait = NoTimer
    /\ circuitBreakerTimeout = NoTimer

\* ids of the items whose task() is called by the step
DispatchedNow ==
    {i \in DOMAIN execCount' :
        execCount'[i] > (IF i \in DOMAIN execCount THEN execCount[i] ELSE 0)}

\* s sorted by descending priority, equal priorities in the order of s
RECURSIVE StableSortDesc(_)
StableSortDesc(s) ==
    IF s = <<>> THEN <<>>
    ELSE LET rest == StableSortDesc(SubSeq(s, 1, Len(s) - 1))
             x == s[Len(s)]
             k == Cardinality({i \in 1..Len(rest) : rest[i].priority >= x.priority})
         IN  SubSeq(rest, 1, k) \o <<x>> \o SubSeq(rest, k + 1, Len(rest))

\* C1: in every reachable state the in-flight counter satisfies
\* 0 <= currentConcurrent <= maxConcurrent.
C1_ConcurrencyBounded ==
    0 <= currentConcurrent /\ currentConcurrent <= maxConcurrent

\* the limit is reached while items are still pending
C1_Witness ==
    currentConcurrent = maxConcurrent /\ queue # <<>>

\* C2 (as claimed): whenever onComplete is invoked, with no clearQueue since
\* the last resetStats, totalSuccess + totalFailed equals the number of items
\* enqueued since the last resetStats.
C2_CompleteMeansAllSettled ==
    [][(completeCount' = completeCount + 1 /\ ~clearedSinceReset')
        => stats'.totalSuccess + stats'.totalFailed = enqueuedSinceReset']_vars

\* C3 (as claimed): a single enqueued item whose task always rejects with
\* "rate limit" ends with 4 executions, totalFailed = 1 and totalRetries = 3.
C3_SingleItemRetriedToExhaustion ==
    (/\ nextId = 1
     /\ clearCount = 0
     /\ resetCount = 0
     /\ seenErrors = {"rate limit"}
     /\ Quiescent)
    => (/\ execCount[1] = maxRetries + 1
        /\ stats.totalFailed = 1
        /\ stats.totalRetries = maxRetries)

\* C4: when one batch of n items of priority 0 is enqueued and every task is
\* fulfilled without delay, onComplete is invoked at most once, it is invoked
\* with totalProcessed = totalSuccess = n and totalFailed = totalRetries = 0,
\* and it has been invoked once when the queue has come to rest.
C4_Scenario ==
    /\ env = "batch"
    /\ nextId > 0
    /\ clearCount = 0
    /\ seenErrors \subseteq {""}

C4_UniformBatchCompletesOnce ==
    /\ [](C4_Scenario => completeCount <= 1)
    /\ []((C4_Scenario /\ Quiescent) => completeCount = 1)
    /\ [][(C4_Scenario /\ completeCount' = completeCount + 1)
           => stats' = [totalProcessed |-> nextId, totalSuccess |-> nextId,
                        totalFailed |-> 0, totalRetries |-> 0]]_vars

\* the stated scenario: 12 items, all fulfilled, onComplete invoked
C4_Witness ==
    /\ C4_Scenario
    /\ nextId = 12
    /\ completeCount = 1
    /\ stats.totalSuccess = 12

\* C5: a step that starts a task leaves circuitBreakerOpen false, and while
\* the breaker stays open no pending item leaves the queue unless clearQueue
\* is called.
C5_NoDispatchWhileOpen ==
    /\ [][DispatchedNow # {} => ~circuitBreakerOpen']_vars
    /\ [][(circuitBreakerOpen /\ circuitBreakerOpen' /\ clearCount' = clearCount)
           => Ids(queue) \subseteq Ids(queue')]_vars

\* the breaker is open, an item is pending and the loop has suspended dispatch
C5_Witness ==
    /\ circuitBreakerOpen
    /\ queue # <<>>
    /\ loopWait = BreakerPause

\* C6: consecutiveFailures >= maxConsecutiveFailures implies
\* circuitBreakerOpen, and the breaker goes from closed to open only in a step
\* that brings consecutiveFailures to maxConsecutiveFailures.
C6_BreakerOpensAtThreshold ==
    /\ [](consecutiveFailures >= maxConsecutiveFailures => circuitBreakerOpen)
    /\ [][(~circuitBreakerOpen /\ circuitBreakerOpen')
           => (/\ consecutiveFailures < maxConsecutiveFailures
               /\ consecutiveFailures' = maxConsecutiveFailures)]_vars

\* the breaker has just opened on the tenth consecutive failure
C6_Witness ==
    circuitBreakerOpen /\ consecutiveFailures = maxConsecutiveFailures

\* C7: an open breaker eventually closes, the closing step sets
\* consecutiveFailures to 0, and the items pending when it closes are
\* eventually dispatched (or removed by clearQueue) with no further enqueue.
C7_BreakerClosesAndResumes ==
    /\ (circuitBreakerOpen ~> ~circuitBreakerOpen)
    /\ [][(circuitBreakerOpen /\ ~circuitBreakerOpen') => consecutiveFailures' = 0]_vars
    /\ (awaitingResume # {} ~> awaitingResume = {})

\* the breaker has closed with items pending that wait for the loop
C7_Witness ==
    /\ closeCount > 0
    /\ ~circuitBreakerOpen
    /\ consecutiveFailures = 0
    /\ awaitingResume # {}

\* C8: clearQueue returns the number of pending items, empties the queue and
\* changes neither currentConcurrent, the stats, the breaker state nor the
\* tasks in flight.
C8_ClearQueueFrame ==
    [][clearCount' = clearCount + 1
        => (/\ lastCleared' = Len(queue)
            /\ queue' = <<>>
            /\ UNCHANGED <<currentConcurrent, stats, consecutiveFailures,
                           circuitBreakerOpen, circuitBreakerTimeout,
                           inflight, micro, processing, loopWait>>)]_vars

\* clearQueue has just removed pending items while a task was in flight
C8_Witness ==
    /\ lastCleared > 0
    /\ queue = <<>>
    /\ inflight # {}

\* C9 (as claimed): with no dispatch since the queue was last empty, the
\* pending queue is the stable sort by descending priority of the items
\* enqueued since then.
C9_QueueIsStableSort ==
    burstOK => queue = StableSortDesc(burst)

\* C10: addToQueue returns its work item; a step in which a task fails or a
\* failure is handled neither stops processQueue nor removes a pending item;
\* and processQueue is suspended on a timer whenever processing is set.
C10_FailureStep ==
    \/ stats'.totalFailed = stats.totalFailed + 1
    \/ consecutiveFailures' = consecutiveFailures + 1

C10_FailureContained ==
    /\ [][nextId' > nextId => addResult' = nextId']_vars
    /\ [][C10_FailureStep
           => (/\ processing' = processing
               /\ processing => loopWait' # NoTimer
               /\ queue' = queue)]_vars
    /\ [](processing => loopWait # NoTimer)

\* a failure was handled, the loop is running and an item is pending
C10_Witness ==
    /\ consecutiveFailures > 0
    /\ stats.totalFailed > 0
    /\ processing
    /\ ~circuitBreakerOpen
    /\ queue # <<>>

\* C11 (as claimed): with an observer registered by setOnProgress, every step
\* in which an item reaches a terminal outcome (success or terminal failure)
\* invokes the observer exactly once.
C11_ProgressAfterEachUnit ==
    [][(onProgress # 0 /\ stats'.totalProcessed = stats.totalProcessed + 1)
        => Len(progressSeen') = 1]_vars

\* the program state getStats reads
queueState == <<queue, processing, currentConcurrent, consecutiveFailures,
                circuitBreakerOpen, circuitBreakerTimeout, stats, onComplete,
                onProgress, loopWait, inflight, micro>>

\* C18: two getStats calls with no queue activity between them return the
\* same value, and a getStats call changes no queue state.
C18_GetStatsIdempotent ==
    /\ [](Len(statsResult) = 2 => statsResult[1] = statsResult[2])
    /\ [][Len(statsResult') > Len(statsResult) => UNCHANGED queueState]_vars

\* getStats was called twice in a row while the queue was at work
C18_Witness ==
    /\ Len(statsResult) = 2
    /\ statsResult[2].totalProcessed > 0
    /\ statsResult[2].currentConcurrent > 0
    /\ statsResult[2].queueLength > 0

\* C19 (as claimed): once items were accepted, eventually either clearQueue
\* was called or every accepted item is counted in totalSuccess or
\* totalFailed.
C19_EveryItemSettles ==
    (nextId > 0) ~> (clearCount > 0 \/ stats.totalSuccess + stats.totalFailed = nextId)

\* the items whose task() is called by the step
StartedNow ==
    {e.item : e \in {x \in inflight' : x.phase = "task" /\ x.item.id \in DispatchedNow}}
    \cup {micro'[i].item : i \in {j \in 1..Len(micro') :
                                      /\ micro'[j].kind = "settle"
                                      /\ micro'[j].item.id \in DispatchedNow}}

\* position of item id in q, 0 if absent
PositionOf(q, id) ==
    LET hits == {i \in 1..Len(q) : q[i].id = id}
    IN  IF hits = {} THEN 0 ELSE CHOOSE i \in hits : TRUE

\* C20 (as claimed): when an item is dispatched, no item still pending has a
\* strictly higher priority, and of two items dispatched by the same pass the
\* one dispatched first has no lower priority.
C20_DispatchByPriority ==
    [][\A d \in StartedNow :
          /\ \A j \in 1..Len(queue') : queue'[j].priority <= d.priority
          /\ \A e \in StartedNow :
                (/\ PositionOf(queue, d.id) > 0
                 /\ PositionOf(queue, d.id) < PositionOf(queue, e.id))
                => e.priority <= d.priority]_vars

\* C12 (as claimed): no run reports its summary twice, and once the queue
\* has come to rest every run that reached the queue has reported its
\* summary once.
C12_SummaryExactlyOnce ==
    \A r \in DOMAIN broadcastRuns :
       /\ broadcastRuns[r].summaries <= 1
       /\ (Quiescent /\ broadcastRuns[r].state = "enqueued")
          => broadcastRuns[r].summaries = 1

\* C13 (as claimed): a broadcast whose target list is empty is refused with
\* the "no users" error and without a queue call, both in initiateBroadcast
\* and in the run confirmBroadcast starts after re-reading the list.
C13_EmptyTargetsRejected ==
    [][/\ (initiateBroadcast /\ userCount = 0)
          => (reply' = "no_users" /\ UNCHANGED <<draft, queueState>>)
       /\ \A r \in DOMAIN broadcastRuns :
             (BroadcastEnqueue(r) /\ broadcastRuns[r].targets = 0)
             => (reply' = "no_users" /\ UNCHANGED <<queueState, resetCount, nextId>>)]_vars

\* C14 (as claimed): every run that got past the draft check eventually
\* reports its summary (or the failure of one of its Telegram calls).
C14_RunsEndWithSummary ==
    \A r \in 1..MaxRuns :
       (Len(broadcastRuns) >= r)
       ~> (/\ Len(broadcastRuns) >= r
           /\ \/ broadcastRuns[r].summaries >= 1
              \/ broadcastRuns[r].state = "aborted")

\* calls of transfer() made for target t so far
CallsFor(calls, t) == IF t \in DOMAIN calls THEN calls[t] ELSE 0

\* C15: at most one call of transfer() is in flight, a call for target t
\* starts only when the transferWithRetry calls of the targets before t, and
\* only those, have returned, and the k-th outcome is that of target k.
C15_SequentialInInputOrder ==
    /\ [](inFlight <= 1)
    /\ [](\A k \in 1..Len(outcomes) : outcomes[k].idx = k)
    /\ [][\A t \in DOMAIN callsMade' :
            CallsFor(callsMade', t) > CallsFor(callsMade, t)
            => (inFlight = 0 /\ Len(outcomes) = t - 1)]_vars

\* the call for the second target is in flight after the first target was
\* retried inside transferWithRetry
C15_Witness ==
    /\ index = 2
    /\ xphase = "transfer"
    /\ inFlight = 1
    /\ Len(outcomes) = 1
    /\ outcomes[1].attempts > 1

\* the failedWallets list the outcomes o call for
RECURSIVE FailedOf(_)
FailedOf(o) ==
    IF o = <<>> THEN <<>>
    ELSE LET x == o[Len(o)]
             rest == FailedOf(SubSeq(o, 1, Len(o) - 1))
         IN  IF x.ok THEN rest
             ELSE Append(rest, [idx |-> x.idx,
                                error |-> IF x.kind = "throw" THEN x.result
                                          ELSE FailureReason(x.result)])

\* C16: after k targets success + failed = k, target k is the k-th one
\* handled, failedWallets holds one entry with a reason for each failed
\* target and no other, and a finished run has handled every target.
C16_FailureDoesNotAbort ==
    /\ success + failed = Len(outcomes)
    /\ Len(outcomes) <= wallets
    /\ \A k \in 1..Len(outcomes) : outcomes[k].idx = k
    /\ failedWallets = FailedOf(outcomes)
    /\ \A k \in 1..Len(failedWallets) : failedWallets[k].error # ""
    /\ xphase = "done" => (Len(outcomes) = wallets /\ success + failed = wallets)

\* a run of three targets is finished; its first target failed, a later one
\* failed by a rejected call and one succeeded
C16_Witness ==
    /\ xphase = "done"
    /\ wallets = 3
    /\ ~outcomes[1].ok
    /\ \E k \in 2..3 : outcomes[k].last = "throw"
    /\ success = 1
    /\ Len(failedWallets) = 2

\* C17: transferWithRetry calls transfer() at most transferMaxRetries times
\* for a target, every call of it returns (it never throws) a result whose
\* attempts lie in 1..transferMaxRetries and equal the calls made, which is a
\* success with the payload exactly when its last transfer() call succeeded
\* and otherwise a failure with the last error; and every call of it ends.
C17_TransferWithRetryReturns ==
    /\ [](\A t \in DOMAIN callsMade : callsMade[t] <= transferMaxRetries)
    /\ [](\A k \in 1..Len(outcomes) :
             /\ outcomes[k].kind = "return"
             /\ outcomes[k].attempts \in 1..transferMaxRetries
             /\ outcomes[k].attempts = callsMade[outcomes[k].idx]
             /\ outcomes[k].ok <=> outcomes[k].last = "ok"
             /\ outcomes[k].result = outcomes[k].last)
    /\ \A t \in 1..MaxWallets :
          (index = t /\ xphase = "transfer") ~> (Len(outcomes) >= t)

\* one call failed after transferMaxRetries rejected attempts, the next
\* succeeded after a retry
C17_Witness ==
    /\ Len(outcomes) >= 2
    /\ outcomes[1].attempts = transferMaxRetries
    /\ outcomes[1].last = "throw"
    /\ outcomes[2].ok
    /\ outcomes[2].attempts > 1

\* ids of the items waiting out a retry delay
DelayIds(infl) == {e.item.id : e \in {x \in infl : x.phase = "delay"}}

\* ids of the items whose retry delay ends in the step
ReinsertedNow == DelayIds(inflight) \ DelayIds(inflight')

\* C21: an item whose retry delay ends becomes the head of the pending queue,
\* ahead of everything pending at that moment; and as long as a retried item
\* is pending ahead of a never-attempted one, the never-attempted one is not
\* dispatched without it and does not get ahead of it.
C21_RetriedItemGoesFirst ==
    /\ [][\A id \in ReinsertedNow :
             /\ queue' # <<>>
             /\ Head(queue').id = id
             /\ Tail(queue') = queue]_vars
    /\ [][\A i, j \in 1..Len(queue) :
             (i < j /\ queue[i].retries > 0 /\ execCount[queue[j].id] = 0)
             => LET x == queue[i].id
                    d == queue[j].id
                IN  /\ d \in DispatchedNow => x \in DispatchedNow
                    /\ d \in Ids(queue')
                       => \/ x \notin Ids(queue')
                          \/ PositionOf(queue', x) < PositionOf(queue', d)]_vars

\* a retried item runs again while an item never attempted is still pending
C21_Witness ==
    /\ \E e \in inflight : e.phase = "task" /\ e.item.retries > 0
    /\ \E j \in 1..Len(queue) : execCount[queue[j].id] = 0

\* the work items whose task is running, or has settled without I/O and
\* waits for _processTask to continue
Running ==
    {e.item : e \in {x \in inflight : x.phase = "task"}}
    \cup {micro[i].item : i \in {j \in 1..Len(micro) : micro[j].kind = "settle"}}

\* the entries of the items that start waiting out a retry delay in the step
EnteredDelay ==
    {e \in inflight' : e.phase = "delay" /\ e.item.id \notin DelayIds(inflight)}

\* C22: a step that sends items into their retry delay adds one to
\* totalRetries and to the retry count of each, and sets the delay to the
\* value _getRetryDelay computes for the old retry count; an item waiting out
\* its delay is not pending and not running; it returns to the queue in the
\* step in which the time left of its delay has passed for every other
\* pending timer as well; and only pending or new items are dispatched.
C22_RetryCountedAndDelayed ==
    /\ [][\A e \in EnteredDelay :
             /\ stats'.totalRetries = stats.totalRetries + 1
             /\ Cardinality(EnteredDelay) = 1
             /\ \E old \in Running :
                   /\ old.id = e.item.id
                   /\ e.item.retries = old.retries + 1
                   /\ e.rem \in {GetRetryDelay(old.retries, j) : j \in Jitters}]_vars
    /\ [][stats'.totalRetries > stats.totalRetries => EnteredDelay # {}]_vars
    /\ [](\A e \in inflight :
             e.phase = "delay"
             => /\ e.rem >= 0
                /\ e.item.id \notin Ids(queue)
                /\ \A r \in Running : r.id # e.item.id)
    /\ [][\A e \in inflight :
             (e.phase = "delay" /\ e.item.id \in ReinsertedNow)
             => /\ e.item.id \in Ids(queue')
                /\ \A o \in inflight \ {e} : [o EXCEPT !.rem = @ - e.rem] \in inflight'
                /\ loopWait # NoTimer => loopWait' = loopWait - e.rem]_vars
    /\ [][\A e \in inflight :
             (e.phase = "delay" /\ e.item.id \notin ReinsertedNow)
             => \E n \in inflight' :
                   /\ n.phase = "delay"
                   /\ n.item = e.item
                   /\ n.rem <= e.rem
                   /\ \A o \in inflight :
                         [o EXCEPT !.rem = @ - (e.rem - n.rem)] \in inflight'
                         \/ o.rem = e.rem - n.rem]_vars
    /\ [][\A id \in DispatchedNow :
             id \in Ids(queue) \/ id \notin DOMAIN execCount]_vars

\* an item retried twice is part-way through its second delay
C22_Witness ==
    /\ stats.totalRetries >= 2
    /\ \E e \in inflight :
          /\ e.phase = "delay"
          /\ e.item.retries = 2
          /\ e.rem > 0
          /\ e.rem < GetRetryDelay(1, 0)

\* ids of the work items the queue still holds, pending or in flight
LiveIds ==
    Ids(queue) \cup {e.item.id : e \in inflight}
    \cup {micro[i].item.id : i \in {j \in 1..Len(micro) : micro[j].kind = "settle"}}

\* C23: no task is executed more than maxRetries + 1 times and no retry
\* count exceeds maxRetries; a step that counts a terminal failure counts it
\* as processed too and ends an item that was executed once more than it
\* was retried; and as long as no task has rejected with a retryable error
\* nothing is retried or executed twice, so that a batch whose tasks all
\* reject with a non-retryable error ends with every task executed once and
\* counted as failed.
C23_RetriesBounded ==
    /\ [](\A id \in DOMAIN execCount : execCount[id] <= maxRetries + 1)
    /\ [](\A i \in 1..Len(queue) : queue[i].retries <= maxRetries)
    /\ [](\A e \in inflight : e.item.retries <= maxRetries)
    /\ [][stats'.totalFailed = stats.totalFailed + 1
           => /\ stats'.totalProcessed = stats.totalProcessed + 1
              /\ \E it \in Running :
                    /\ it.id \notin {r.id : r \in Running'}
                    /\ it.id \notin Ids(queue') \cup DelayIds(inflight')
                    /\ execCount[it.id] = it.retries + 1]_vars
    /\ [](seenErrors \cap retryableErrors = {}
           => /\ stats.totalRetries = 0
              /\ DelayIds(inflight) = {}
              /\ \A id \in DOMAIN execCount : execCount[id] <= 1)
    /\ []((seenErrors = {"forbidden"} /\ Quiescent)
           => /\ stats.totalFailed = nextId
              /\ \A id \in DOMAIN execCount : execCount[id] = 1)

\* an item was executed four times and counted as failed when its retries
\* were used up
C23_Witness ==
    /\ "forbidden" \notin seenErrors
    /\ stats.totalFailed = 1
    /\ stats.totalRetries = maxRetries
    /\ \E id \in DOMAIN execCount :
          execCount[id] = maxRetries + 1 /\ id \notin LiveIds

\* the callback of processQueue that the head of the microtask queue is
\* ("" if it is none) and that runs in the step
CallbackNow ==
    IF micro # <<>> /\ micro' # micro /\ Len(micro') <= Len(micro)
    THEN Head(micro).kind ELSE ""

\* the continuation the step has queued last
QueuedLast ==
    IF micro' = <<>> THEN "" ELSE micro'[Len(micro')].kind

\* C24: a step that counts a success queues the .then callback and the step
\* in which that callback runs sets consecutiveFailures to 0; a step that
\* counts a terminal failure queues the rejection, which .then passes on to
\* the .catch callback, and the step in which .catch runs adds exactly one
\* to consecutiveFailures; no other step changes the counter but the
\* closing of the circuit breaker.
C24_FailureCounterFollowsOutcome ==
    /\ [][stats'.totalSuccess = stats.totalSuccess + 1 => QueuedLast = "then"]_vars
    /\ [][stats'.totalFailed = stats.totalFailed + 1 => QueuedLast = "pass"]_vars
    /\ [][CallbackNow = "pass"
           => QueuedLast = "catch" /\ UNCHANGED consecutiveFailures]_vars
    /\ [][CallbackNow = "then" => consecutiveFailures' = 0]_vars
    /\ [][CallbackNow = "catch"
           => consecutiveFailures' = consecutiveFailures + 1]_vars
    /\ [][consecutiveFailures' # consecutiveFailures
           => \/ CallbackNow \in {"then", "catch"}
              \/ circuitBreakerOpen /\ ~circuitBreakerOpen']_vars

\* with nothing retried, three tasks have failed and a success among them
\* has reset the counter before the last two failures
C24_Witness ==
    /\ micro = <<>>
    /\ stats.totalRetries = 0
    /\ stats.totalSuccess >= 1
    /\ stats.totalFailed = 3
    /\ consecutiveFailures = 2

\* C25 (as claimed): the queue retries nothing as long as no task has
\* rejected with a retryable message, and transferWithRetry goes into a
\* backoff, which ends with a further transfer() call, only after an error
\* whose message is of a transient class, whether the error came as a
\* failure result or as a thrown exception.
C25_PermanentErrorsNeverRetried ==
    /\ [](seenErrors \cap retryableErrors = {} => stats.totalRetries = 0)
    /\ [][(xphase = "transfer" /\ xphase' = "backoff")
           => IsTransient(MessageOf(lastError'))]_vars

\* C26: the reward claim is awaited only for the target whose transfer has
\* just been counted as a success; whatever the reward claim ends with, the
\* step in which it ends changes neither success, failed nor failedWallets
\* and leaves the run in the loop body, which ends the run only after the
\* last target.
C26_RewardClaimIsBestEffort ==
    /\ [](xphase = "reward"
           => /\ Len(outcomes) = index
              /\ outcomes[index].idx = index
              /\ outcomes[index].ok)
    /\ [][(xphase # "reward" /\ xphase' = "reward")
           => success' = success + 1]_vars
    /\ [][(xphase = "reward" /\ xphase' # "reward")
           => /\ UNCHANGED <<success, failed, failedWallets, index, wallets>>
              /\ xphase' \in {"progress", "pause", "done"}
              /\ xphase' = "done" => index = wallets]_vars
    /\ [](xphase \in {"progress", "pause", "done"}
           => success + failed = index /\ Len(failedWallets) = failed)

\* the run is at its third target after the reward claims of the first two
C26_Witness ==
    /\ index = 3
    /\ xphase = "transfer"
    /\ success = 2
    /\ failed = 0

\* the step ends the handling of a target: its failure is counted, or the
\* reward claim after its success has ended
TargetHandledNow ==
    \/ xphase = "transfer" /\ failed' = failed + 1
    \/ xphase = "reward" /\ xphase' # "reward"

\* C27: the next target is started only out of the sleep of pauseDelay ms,
\* the loop sleeps only when a target is left and ends only after the last
\* target and never out of the sleep; a progress message is sent by the step
\* that ends the handling of a target whose number is a multiple of
\* progressEvery and by no other step, and it shows that number as the
\* processed count together with success and failed counts that add up to
\* it.
C27_PauseAndProgress ==
    /\ [][index' # index => (xphase = "pause" \/ xphase = "idle")]_vars
    /\ [](xphase = "pause" => (index < wallets /\ delayMs = pauseDelay))
    /\ [](xphase = "done" => index = wallets)
    /\ [][xphase' = "done" => xphase # "pause"]_vars
    /\ [][TargetHandledNow
           => /\ snapshot' # <<>> <=> (index > 0 /\ index % progressEvery = 0)
              /\ snapshot' = <<>> => xphase' = (IF index < wallets THEN "pause" ELSE "done")]_vars
    /\ [][~TargetHandledNow => snapshot' = <<>>]_vars
    /\ [][xphase = "progress"
           => xphase' = (IF index < wallets THEN "pause" ELSE "done")]_vars
    /\ [](snapshot # <<>>
           => /\ Len(snapshot) = 1
              /\ snapshot[1].processed = index
              /\ snapshot[1].success = success
              /\ snapshot[1].failed = failed
              /\ snapshot[1].success + snapshot[1].failed = snapshot[1].processed)

\* the second progress message is sent, after the first one was shown and
\* with a failed target in its counts
C27_Witness ==
    /\ snapshot # <<>>
    /\ index = 2 * progressEvery
    /\ lastUpdateIdx = progressEvery - 1
    /\ snapshot[1].failed > 0

\* C28: whenever transferWithRetry sleeps after a rate-limit error, the
\* sleep is longer than the one it would take at the same attempt after any
\* other retried error, whatever the jitter of that one, and longer than the
\* one after a thrown exception.
C28_RateLimitBacksOffSlowest ==
    (xphase = "backoff" /\ lastError = "Rate limit")
    => \A j \in JitterRange :
          /\ \A m \in RetriedClasses \ {"Rate limit"} :
                delayMs > BackoffDelay(m, attempt, j)
          /\ delayMs > ThrowDelay(attempt)

\* the shortest sleep after a rate-limit error on the last attempt that is
\* retried
C28_Witness ==
    /\ xphase = "backoff"
    /\ lastError = "Rate limit"
    /\ attempt = transferMaxRetries - 1
    /\ delayMs = rateLimitBase * attempt

\* the sleep of transferWithRetry after error err on attempt att, before
\* the jitter is added
PreJitter(err, att) ==
    IF err = "throw" THEN ThrowDelay(att) ELSE BackoffDelay(err, att, 0)

\* C29 (as claimed): the delay of the queue for retry count n is
\* min(baseDelay * 2^n, maxDelay) plus a jitter of 0..999 ms and does not
\* decrease with n; and every sleep of transferWithRetry is its delay before
\* jitter plus a jitter of 0..1999 ms, where the delay before jitter doubles
\* from one attempt to the next unless it has reached a maximum at which it
\* stays.
C29_DelaysExponentialAndCapped ==
    /\ \A n \in 0..maxRetries :
          /\ \A j \in {0, 999} :
                GetRetryDelay(n, j) = Min(baseDelay * Pow2(n), maxDelay) + j
          /\ n > 0 => GetRetryDelay(n, 0) >= GetRetryDelay(n - 1, 0)
    /\ xphase = "backoff"
       => /\ delayMs - PreJitter(lastError, attempt) \in JitterRange
          /\ attempt > 1
             => \/ PreJitter(lastError, attempt) = 2 * PreJitter(lastError, attempt - 1)
                \/ /\ PreJitter(lastError, attempt) < 2 * PreJitter(lastError, attempt - 1)
                   /\ PreJitter(lastError, attempt + 1) = PreJitter(lastError, attempt)

\* how many times the queue holds work item id, pending or in flight
Holders(q, infl, id) ==
    Cardinality({i \in 1..Len(q) : q[i].id = id})
    + Cardinality({e \in infl : e.item.id = id})

\* the step is the one in which run r enqueues its sends
EnqueuesNow(r) ==
    /\ r \in DOMAIN broadcastRuns
    /\ broadcastRuns[r].state = "announcing"
    /\ broadcastRuns'[r].state = "enqueued"

\* C30: the step in which a run enqueues its sends adds one work item of
\* priority 0 and retry count 0 for each user of the list read at
\* confirmation, and items are added by no other step; the queue never holds
\* a work item twice; the step that counts a success ends the item that
\* succeeded, and an item that has ended is never held again.
C30_OneItemPerTarget ==
    /\ [][\A r \in 1..MaxRuns :
             EnqueuesNow(r)
             => LET new == (nextId + 1)..(nextId + broadcastRuns[r].targets)
                IN  /\ nextId' = nextId + broadcastRuns[r].targets
                    /\ \A id \in new : Holders(queue', inflight', id) = 1
                    /\ \A i \in 1..Len(queue') :
                          queue'[i].id \in new
                          => queue'[i].priority = 0 /\ queue'[i].retries = 0
                    /\ \A e \in inflight' :
                          e.item.id \in new
                          => /\ e.item.priority = 0
                             /\ e.item.retries = 0
                             /\ e.phase = "task"]_vars
    /\ [][nextId' # nextId => \E r \in 1..MaxRuns : EnqueuesNow(r)]_vars
    /\ [](\A id \in 1..nextId : Holders(queue, inflight, id) <= 1)
    /\ [][stats'.totalSuccess = stats.totalSuccess + 1
           => \E e \in inflight :
                 /\ e.phase = "task"
                 /\ e.item.id \notin LiveIds']_vars
    /\ [][LiveIds' \subseteq LiveIds \cup ((nextId + 1)..nextId')]_vars

\* a send that was retried has succeeded and its work item is gone
C30_Witness ==
    /\ "forbidden" \notin seenErrors
    /\ \E id \in DOMAIN execCount : execCount[id] = 2 /\ id \notin LiveIds

\* the step is the one in which the onComplete callback of run r reports
\* its summary; the finalStats it is handed are getStats() of that moment
SummaryNow(r) ==
    /\ r \in DOMAIN broadcastRuns
    /\ broadcastRuns'[r].summaries = broadcastRuns[r].summaries + 1

\* C31 (as claimed): a run resets the statistics when it starts, and the
\* statistics of its summary are its own: the successes reported are at
\* most its targets, and successes and failures together are its targets.
C31_SummaryStatsBelongToRun ==
    /\ [][\A r \in 1..MaxRuns :
             EnqueuesNow(r)
             => stats'.totalSuccess + stats'.totalFailed + stats'.totalRetries = 0]_vars
    /\ [][\A r \in 1..MaxRuns :
             SummaryNow(r)
             => /\ stats.totalSuccess >= 0
                /\ stats.totalSuccess <= broadcastRuns[r].targets
                /\ stats.totalSuccess + stats.totalFailed
                      = broadcastRuns[r].targets]_vars

\* the step is one in which a send of the broadcast failed: the catch block
\* of its task pushed an entry to failedUsers
SendFailedNow == Len(failedNow') = 1

\* C32: a step in which a send fails with a message containing 'blocked' or
\* 'deactivated' removes the user of that send from the user store, whether
\* the queue then retries the item (it waits out a retry delay) or gives it
\* up; the step removes nobody else, and no other step removes a user.
C32_BlockedUserRemoved ==
    /\ [][SendFailedNow
           => LET sent == failedNow'[1]
              IN  /\ \E e \in inflight :
                        e.phase = "task" /\ sendTo[e.item.id] = sent.userId
                  /\ Keywords(sent.error) \cap {"blocked", "deactivated"} # {}
                     => /\ sent.userId \notin users'
                        /\ users' = users \ {sent.userId}
                  /\ Keywords(sent.error) \cap {"blocked", "deactivated"} = {}
                     => users' = users]_vars
    /\ [][~SendFailedNow => users' = users]_vars

\* a send failed with a message that is retried and names the user as
\* blocked: the user is gone and the item waits out its retry delay
C32_Witness ==
    /\ Len(failedNow) = 1
    /\ failedNow[1].error = "network blocked"
    /\ failedNow[1].userId \notin users
    /\ users # {}
    /\ \E e \in inflight : e.phase = "delay" /\ sendTo[e.item.id] = failedNow[1].userId

\* C33 (as claimed): the items counted as processed are those counted as
\* succeeded or failed, and there are never more of them than items were
\* enqueued since the last resetStats.
C33_ProcessedCountsEnqueuedItems ==
    /\ stats.totalProcessed = stats.totalSuccess + stats.totalFailed
    /\ stats.totalProcessed <= enqueuedSinceReset

\* C34 (as claimed): consecutiveFailures goes back to zero only in a step
\* in which the circuit breaker closes or which handles a task attempt that
\* succeeded, so never before any attempt has succeeded.
C34_OnlySuccessResetsFailures ==
    [][(consecutiveFailures > 0 /\ consecutiveFailures' = 0)
        => \/ closeCount' = closeCount + 1
           \/ "" \in seenErrors]_vars

\* C35 (as claimed): once clearQueue has been called, and with no addToQueue
\* after it, the pending queue stays empty and no task is started.  In
\* environment "batch" nothing is enqueued after the call: the one addBatch
\* comes first.
C35_ClearedQueueStaysEmpty ==
    [][(env = "batch" /\ clearCount > 0 /\ nextId' = nextId)
        => /\ queue' = <<>>
           /\ execCount' = execCount]_vars

\* C36 (as claimed): at most one call of transfer() is in flight at any
\* time, whichever handlers are running.
C36_OneTransferInFlight ==
    inFlight <= 1

\* the runs whose sends were enqueued
EnqueuedRuns == {r \in DOMAIN broadcastRuns : broadcastRuns[r].state = "enqueued"}

\* C37 (as claimed): one draft yields at most one run.  In environment
\* "session" the admin prepares one draft, so at most one run ever enqueues
\* its sends.
C37_OneRunPerDraft ==
    Cardinality(EnqueuedRuns) <= 1

\* the step in which confirmBroadcast finds no draft and tells the admin so
RefusesNow == reply # "no_draft" /\ reply' = "no_draft"

\* C38: a run starts only in a state in which the session holds a draft;
\* resetStats, addToQueue and setOnComplete are only called by the step in
\* which a run enqueues its sends; and the step in which confirmBroadcast
\* finds no draft leaves the queue, its statistics and its observer as they
\* are and starts no run.
C38_NoDraftNoQueueCall ==
    /\ [][Len(broadcastRuns') > Len(broadcastRuns) => draft]_vars
    /\ [][(resetCount' # resetCount \/ nextId' # nextId \/ onComplete' # onComplete)
           => \E r \in 1..MaxRuns : EnqueuesNow(r)]_vars
    /\ [][RefusesNow
           => /\ ~draft
              /\ UNCHANGED <<queueState, stats, onComplete, resetCount, nextId,
                             broadcastRuns, draft>>]_vars

\* confirmBroadcast refused although a run of the draft is on its way: the
\* draft was cancelled or the session expired
C38_Witness ==
    /\ reply = "no_draft"
    /\ ~draft
    /\ Len(broadcastRuns) = 1
    /\ broadcastRuns[1].state = "enqueued"
    /\ broadcastRuns[1].summaries = 0
    /\ inflight # {}

\* C39: for every user and limit type, no more than `limit` of the admitted
\* requests lie in a window of `window` ms (the observer keeps the admitted
\* requests of the last window, by its own count); a request that is
\* rejected is not recorded: the rejecting step stores nothing but the
\* requests of the window that were stored before; and getRemainingRequests
\* returns the limit less the admitted requests of the window, never less
\* than 0.
C39_SlidingWindowLimit ==
    /\ [](\A key \in Keys : Len(admitted[key]) <= LimitOf(key[2]).limit)
    /\ [][\A key \in Keys :
             (limitedResult' = <<[key |-> key, value |-> TRUE]>>)
             => /\ admitted'[key] = admitted[key]
                /\ requests'[key] = admitted[key]
                /\ \A k \in DOMAIN requests \ {key} : requests'[k] = requests[k]]_vars
    /\ [](\A key \in Keys :
             (Len(remainingResult) = 1 /\ remainingResult[1].key = key)
             => /\ remainingResult[1].value
                      = LimitOf(key[2]).limit - Len(admitted[key])
                /\ remainingResult[1].value >= 0)

\* a request was rejected because the two requests admitted before it are
\* still inside the window, one of them from an earlier moment
C39_Witness ==
    /\ Len(limitedResult) = 1
    /\ limitedResult[1].value
    /\ limitedResult[1].key[2] = "transfer"
    /\ Len(admitted[limitedResult[1].key]) = 2
    /\ admitted[limitedResult[1].key][1] < now
    /\ now > cleanupEvery

====
